---- MODULE Spec2Model ----
(***************************************************************************)
(* The campaign worker: the generic retry executor                         *)
(* (python-generator/exponential_backoff.py), the message parser and the   *)
(* HTTP delegator (python-worker/utils.py), the result publisher           *)
(* (python-worker/producer.py) and the consumer handler                    *)
(* (python-worker/consumer.py).                                            *)
(*                                                                         *)
(* SpecRetry    one run of ExponentialBackoff.execute over options drawn   *)
(*              from bounded sets; the operation's outcome and the jitter  *)
(*              draw of every attempt are nondeterministic.                *)
(* SpecConsumer one invocation of process_campaign_message after another.  *)
(*              Handlers of different messages share nothing but the       *)
(*              channel and the result queue they are passed, so one       *)
(*              invocation is modelled at a time.                          *)
(* FairConsumer SpecConsumer with weak fairness on the handler's steps:    *)
(*              the event loop resumes every coroutine that can run.       *)
(***************************************************************************)
EXTENDS Integers, Sequences, FiniteSets, TLC

\* ---------------------------------------------------------------- bounds
\* max_retries of the generic executor ranges over 0..MaxRetriesBound
MaxRetriesBound == 3
\* random.random() is drawn from {0/JitterSteps, ..., (JitterSteps-1)/JitterSteps}
JitterSteps == 4

\* ------------------------------------------------------ RetryOptions
\* defaults of the RetryOptions dataclass
DefaultMaxRetries == 3
DefaultInitialDelayMs == 1000
DefaultMaxDelayMs == 30000
\* backoff_multiplier = 2.0, kept as the fraction num/den
DefaultBackoffMultiplier == [num |-> 2, den |-> 1]
\* jitter_factor = 0.1, kept in percent
DefaultJitterPct == 10

\* RetryOptions(...) with __post_init__: a missing should_retry becomes
\* the predicate "lambda error, _: True"
RetryOptions(max_retries, initial_delay_ms, max_delay_ms, mult, jitterPct, should_retry) ==
    [max_retries |-> max_retries,
     initial_delay_ms |-> initial_delay_ms,
     max_delay_ms |-> max_delay_ms,
     backoff_multiplier |-> mult,
     jitter_pct |-> jitterPct,
     should_retry |-> IF should_retry = "None" THEN "always" ELSE should_retry]

\* ------------------------------------------------------------- errors
\* Exceptions are named by the text str(e) gives, or by their class.
NoError == "NoError"

\* httpx failures of _make_request
HttpStatusErrors == {"HTTPStatusError 503", "HTTPStatusError 429", "HTTPStatusError 404"}
HttpTransportErrors == {"ConnectError", "TimeoutException"}
\* response.json() on a 2xx body that is not JSON
HttpBodyErrors == {"JSONDecodeError in response"}
HttpErrors == HttpStatusErrors \cup HttpTransportErrors \cup HttpBodyErrors

StatusCode(error) ==
    CASE error = "HTTPStatusError 503" -> 503
      [] error = "HTTPStatusError 429" -> 429
      [] error = "HTTPStatusError 404" -> 404
      [] OTHER -> 0

\* failures of channel.default_exchange.publish, by their message
PublishErrors == {"Connection reset by peer", "Channel closed by RPC timeout",
                  "Temporary failure in name resolution", "Broker unavailable",
                  "Channel invalid state"}

\* the keywords of should_retry_publish found in str(error).lower()
KeywordsIn(error) ==
    CASE error = "Connection reset by peer" -> {"connection"}
      [] error = "Channel closed by RPC timeout" -> {"timeout"}
      [] error = "Temporary failure in name resolution" -> {"temporary"}
      [] error = "Broker unavailable" -> {"unavailable"}
      [] OTHER -> {}

\* errors the generic executor is exercised with
GenericErrors == {"E1", "E2"}

\* only status 500 and 429 taken as retryable
should_retry_http_only500(error, attemptArg) ==
    IF error \in HttpStatusErrors
    THEN StatusCode(error) = 500 \/ StatusCode(error) = 429
    ELSE error \in HttpTransportErrors

\* the test for status 429 left out
should_retry_http_no429(error, attemptArg) ==
    IF error \in HttpStatusErrors
    THEN StatusCode(error) >= 500
    ELSE error \in HttpTransportErrors

should_retry_http(error, attemptArg) ==
    IF error \in HttpStatusErrors
    THEN StatusCode(error) >= 500 \/ StatusCode(error) = 429
    ELSE error \in HttpTransportErrors

\* every publish failure taken as retryable
should_retry_publish_always(error, attemptArg) == TRUE

should_retry_publish(error, attemptArg) ==
    \E keyword \in {"connection", "timeout", "temporary", "unavailable"} :
        keyword \in KeywordsIn(error)

\* options.should_retry(error, attempt): the predicate the options carry
should_retry(opts, error, attemptArg) ==
    CASE opts.should_retry = "always" -> TRUE
      [] opts.should_retry = "never" -> FALSE
      [] opts.should_retry = "onlyE1" -> error = "E1"
      [] opts.should_retry = "firstOnly" -> attemptArg = 0
      [] opts.should_retry = "http" -> should_retry_http(error, attemptArg)
      [] opts.should_retry = "publish" -> should_retry_publish(error, attemptArg)

\* -------------------------------------------------- _calculate_delay
RECURSIVE Pow(_, _)
Pow(b, e) == IF e = 0 THEN 1 ELSE b * Pow(b, e - 1)

Min(a, b) == IF a <= b THEN a ELSE b

\* int(base_delay + jitter) for the jitter draw r/JitterSteps, exactly:
\* base_delay = initial * (num/den)^attempt,
\* jitter = base_delay * (pct/100) * (r/JitterSteps)
DelayWithJitter(opts, attemptArg, r) ==
    (opts.initial_delay_ms * Pow(opts.backoff_multiplier.num, attemptArg)
        * (100 * JitterSteps + opts.jitter_pct * r))
    \div (Pow(opts.backoff_multiplier.den, attemptArg) * 100 * JitterSteps)

\* the attempt number left out of the delay
calculate_delay_flat(opts, attemptArg, r) ==
    Min(DelayWithJitter(opts, 0, r), opts.max_delay_ms)

\* the cap of max_delay_ms left out
calculate_delay_uncapped(opts, attemptArg, r) ==
    DelayWithJitter(opts, attemptArg, r)

calculate_delay(opts, attemptArg, r) ==
    Min(DelayWithJitter(opts, attemptArg, r), opts.max_delay_ms)

\* --------------------------------------------- ExponentialBackoff.execute
\* range(self.options.max_retries + 1)
AttemptRangeEnd(opts) == opts.max_retries + 1

\* the budget test one attempt early
execute_except_early(opts, attemptArg, error) ==
    IF attemptArg >= opts.max_retries - 1 THEN "raise_exhausted"
    ELSE IF ~should_retry(opts, error, attemptArg) THEN "raise_no_retry"
    ELSE "sleep"

\* the predicate's answer ignored
execute_except_ignoring(opts, attemptArg, error) ==
    IF attemptArg = opts.max_retries THEN "raise_exhausted"
    ELSE "sleep"

\* the except branch of one attempt: what the executor does with the error
execute_except(opts, attemptArg, error) ==
    IF attemptArg = opts.max_retries THEN "raise_exhausted"
    ELSE IF ~should_retry(opts, error, attemptArg) THEN "raise_no_retry"
    ELSE "sleep"

\* the predicate consulted after every failure
ConsultsShouldRetryAlways(opts, attemptArg) == TRUE

\* the predicate is consulted only when the attempt is not the last one
ConsultsShouldRetry(opts, attemptArg) == attemptArg # opts.max_retries

\* ------------------------------------------- sync_exponential_backoff
\* the delay of the synchronous executor without its jitter
sync_delay_without_jitter(opts, attemptArg, r) ==
    Min((opts.initial_delay_ms * Pow(opts.backoff_multiplier.num, attemptArg))
            \div Pow(opts.backoff_multiplier.den, attemptArg),
        opts.max_delay_ms)

\* min(int(base_delay + jitter), options.max_delay_ms), computed in place
\* for the jitter draw r/JitterSteps
sync_delay(opts, attemptArg, r) ==
    Min((opts.initial_delay_ms * Pow(opts.backoff_multiplier.num, attemptArg)
            * (100 * JitterSteps + opts.jitter_pct * r))
        \div (Pow(opts.backoff_multiplier.den, attemptArg) * 100 * JitterSteps),
        opts.max_delay_ms)

\* the except branch of one attempt of the synchronous executor
sync_except(opts, attemptArg, error) ==
    IF attemptArg = opts.max_retries THEN "raise_exhausted"
    ELSE IF ~should_retry(opts, error, attemptArg) THEN "raise_no_retry"
    ELSE "sleep"

\* ------------------------------------------------------ message bodies
\* A body is the bytes of one inbound message, described by what
\* message.body.decode() and json.loads make of them:
\*   utf8        whether the bytes decode as UTF-8
\*   kind        "invalid" (not JSON) | "scalar" | "list" | "dict"
\*   campaignId, prompt   the top-level entries of a dict (Absent if none)
\*   data, zero  the entries under "data" and "0" of a dict
\*   first       the first element of a list
\* An entry is absent, a scalar, or a dict with campaignId and prompt.
Absent == "ABSENT"
NoEntry == [kind |-> "absent", campaignId |-> Absent, prompt |-> Absent]
ScalarEntry == [kind |-> "scalar", campaignId |-> Absent, prompt |-> Absent]
DictEntry(c, p) == [kind |-> "dict", campaignId |-> c, prompt |-> p]

Body(utf8, kind, c, p, data, zero, first) ==
    [utf8 |-> utf8, kind |-> kind, campaignId |-> c, prompt |-> p,
     data |-> data, zero |-> zero, first |-> first]

DictBody(c, p, data, zero) == Body(TRUE, "dict", c, p, data, zero, NoEntry)

\* ----------------------------------------------- parse_campaign_message
Job(c, p) == [ok |-> TRUE, campaignId |-> c, prompt |-> p, error |-> NoError]
ParseFailure(e) == [ok |-> FALSE, campaignId |-> Absent, prompt |-> Absent, error |-> e]

\* the entry's prompt read with a default instead of by key
FromEntryPromptOptional(entry) ==
    IF entry.kind # "dict" THEN ParseFailure("string indices must be integers")
    ELSE IF entry.campaignId = Absent THEN ParseFailure("'campaignId'")
    ELSE Job(entry.campaignId, entry.prompt)

\* campaign_data["campaignId"], then campaign_data["prompt"]
FromEntry(entry) ==
    IF entry.kind # "dict" THEN ParseFailure("string indices must be integers")
    ELSE IF entry.campaignId = Absent THEN ParseFailure("'campaignId'")
    ELSE IF entry.prompt = Absent THEN ParseFailure("'prompt'")
    ELSE Job(entry.campaignId, entry.prompt)

\* the parser going on to the key "0" when data does not hold the job
parse_campaign_message_falling_through(raw_body) ==
    IF raw_body.kind = "invalid" THEN ParseFailure("Expecting value: line 1 column 1 (char 0)")
    ELSE IF raw_body.kind = "dict"
    THEN IF raw_body.campaignId # Absent /\ raw_body.prompt # Absent
         THEN Job(raw_body.campaignId, raw_body.prompt)
         ELSE IF raw_body.data.kind = "dict" /\ FromEntry(raw_body.data).ok
         THEN FromEntry(raw_body.data)
         ELSE IF raw_body.zero.kind # "absent"
                 \/ (raw_body.kind = "list" /\ raw_body.first.kind # "absent")
         THEN FromEntry(IF raw_body.kind = "list" THEN raw_body.first ELSE raw_body.zero)
         ELSE ParseFailure("Unrecognized message format")
    ELSE ParseFailure("Expected dict")

\* the parser without the branch of the key "0"
parse_campaign_message_no_index(raw_body) ==
    IF raw_body.kind = "invalid" THEN ParseFailure("Expecting value: line 1 column 1 (char 0)")
    ELSE IF raw_body.kind = "dict"
    THEN IF raw_body.campaignId # Absent /\ raw_body.prompt # Absent
         THEN Job(raw_body.campaignId, raw_body.prompt)
         ELSE IF raw_body.data.kind = "dict"
         THEN FromEntry(raw_body.data)
         ELSE ParseFailure("Unrecognized message format")
    ELSE ParseFailure("Expected dict")

parse_campaign_message(raw_body) ==
    IF raw_body.kind = "invalid" THEN ParseFailure("Expecting value: line 1 column 1 (char 0)")
    ELSE IF raw_body.kind = "dict"
    THEN IF raw_body.campaignId # Absent /\ raw_body.prompt # Absent
         THEN Job(raw_body.campaignId, raw_body.prompt)
         ELSE IF raw_body.data.kind = "dict"
         THEN FromEntry(raw_body.data)
         ELSE IF raw_body.zero.kind # "absent"
                 \/ (raw_body.kind = "list" /\ raw_body.first.kind # "absent")
         THEN FromEntry(IF raw_body.kind = "list" THEN raw_body.first ELSE raw_body.zero)
         ELSE ParseFailure("Unrecognized message format")
    ELSE ParseFailure("Expected dict")

\* the parsing inlined in CampaignWorker.process_campaign_message
CampaignWorker_parse(raw_body) ==
    IF raw_body.kind = "invalid" THEN ParseFailure("Expecting value: line 1 column 1 (char 0)")
    ELSE IF raw_body.kind = "dict"
    THEN IF raw_body.campaignId # Absent /\ raw_body.prompt # Absent
         THEN Job(raw_body.campaignId, raw_body.prompt)
         ELSE IF raw_body.data.kind = "dict"
         THEN FromEntry(raw_body.data)
         ELSE IF raw_body.zero.kind # "absent"
                 \/ (raw_body.kind = "list" /\ raw_body.first.kind # "absent")
         THEN FromEntry(IF raw_body.kind = "list" THEN raw_body.first ELSE raw_body.zero)
         ELSE ParseFailure("Unrecognized message format")
    ELSE ParseFailure("Expected dict")

\* the parser of each of the two workers
parse_of(impl, raw_body) ==
    IF impl = "utils" THEN parse_campaign_message(raw_body)
    ELSE CampaignWorker_parse(raw_body)

\* --------------------------------------- extract_campaign_id_from_error
extract_campaign_id_from_error(raw_body) ==
    IF raw_body.kind = "dict"
    THEN IF raw_body.campaignId # Absent THEN raw_body.campaignId
         ELSE IF raw_body.data.kind = "dict" /\ raw_body.data.campaignId # Absent
         THEN raw_body.data.campaignId
         ELSE IF raw_body.zero.kind = "dict" /\ raw_body.zero.campaignId # Absent
         THEN raw_body.zero.campaignId
         ELSE "unknown"
    ELSE "unknown"

\* ------------------------------------------------------ result envelopes
\* error = None
None == "None"

ResultData(c, text, image, error) ==
    [campaignId |-> c, generatedText |-> text, imagePath |-> image, error |-> error]

\* the error_result dict of the handler's except branch
error_result(c, e) == ResultData(c, "", "", e)

\* the dict delegate_to_generator returns for a 2xx JSON response
delegate_success(response) ==
    ResultData(response.campaignId, response.generatedText, response.imagePath, None)

\* the except branch keeping a text next to the error
delegate_failure_with_text(c, e) ==
    ResultData(c, "partial", "", "Generation service error: " \o e)

\* the dict delegate_to_generator returns from its except branch
delegate_failure(c, e) ==
    ResultData(c, "", "", "Generation service error: " \o e)

\* response["campaignId"], response["generatedText"], response["imagePath"]
ResponseKeyError(response) ==
    IF response.campaignId = Absent THEN "'campaignId'"
    ELSE IF response.generatedText = Absent THEN "'generatedText'"
    ELSE IF response.imagePath = Absent THEN "'imagePath'"
    ELSE NoError

\* delegate_to_generator once make_http_request has returned response
delegate_result(c, response) ==
    IF ResponseKeyError(response) # NoError
    THEN delegate_failure(c, ResponseKeyError(response))
    ELSE delegate_success(response)

\* the Message send_result builds around result_data
ResultMessage(result_data) ==
    [pattern |-> "campaign.result", data |-> result_data,
     message_id |-> result_data.campaignId]

\* the options of make_http_request and of send_result
HttpMaxRetries == 3
HttpInitialDelayMs == 1000
HttpMaxDelayMs == 10000
PublishMaxRetries == 3
PublishInitialDelayMs == 1000
PublishMaxDelayMs == 10000

HttpOptions ==
    RetryOptions(HttpMaxRetries, HttpInitialDelayMs, HttpMaxDelayMs,
                 DefaultBackoffMultiplier, DefaultJitterPct, "http")

PublishOptions ==
    RetryOptions(PublishMaxRetries, PublishInitialDelayMs, PublishMaxDelayMs,
                 DefaultBackoffMultiplier, DefaultJitterPct, "publish")

\* an exception leaving the block settles nothing
process_exit_unsettled(raised) == IF raised # NoError THEN "none" ELSE "ack"

\* message.process().__aexit__: reject when the block raised, else ack
process_exit(raised) == IF raised # NoError THEN "reject" ELSE "ack"

VARIABLES
    \* ---- SpecRetry: one run of ExponentialBackoff.execute
    options,      \* self.options
    r_pc,         \* "call" | "sleep" | "returned" | "raised"
    attempt,      \* the loop variable
    last_error,   \* last_error
    calls,        \* number of times operation() was invoked
    op_last,      \* what the latest operation() call produced
    sleeps,       \* number of asyncio.sleep calls
    delay,        \* the delay of the latest sleep, in ms
    prevDelay,    \* the delay of the sleep before it
    srCalls,      \* number of should_retry calls
    srArg,        \* attempt index passed to the latest should_retry call
    srResult,     \* its result: "none" | "true" | "false"
    result,       \* what execute returned or raised
    sync,         \* one run of sync_exponential_backoff on the same outcomes
    \* ---- SpecConsumer: one invocation of process_campaign_message
    h_pc,         \* "idle" | "start" | "http" | "http_sleep" | "publish"
                  \* | "publish_sleep" | "exit" | "settled"
    body,         \* message.body
    accepted,     \* parse_campaign_message returned a job
    campaign_id,  \* campaign_id of the parsed job
    prompt,       \* prompt of the parsed job
    delegations,  \* number of delegate_to_generator calls
    delegateFailed, \* delegate_to_generator returned from its except branch
    h_attempt,    \* loop variable of the running with_exponential_backoff
    h_last_error, \* its last_error
    phase,        \* which send_result call runs: "primary" | "error"
    to_send,      \* the result_data passed to send_result
    httpCalls,    \* number of _make_request calls
    pubCalls,     \* number of _send_message calls
    h_sleeps,     \* number of asyncio.sleep calls
    published,    \* messages published to the result queue
    sendFailures, \* number of send_result calls that raised
    sendErrorLogged, \* "Failed to send error result" was logged
    escaped,      \* the exception that left the handler, or NoError
    settle,       \* "none" | "ack" | "reject"
    settles,      \* number of ack/reject calls on the message
    http_last,    \* what the latest _make_request call produced: "ok" or its error
    http503s,     \* number of _make_request calls answered with status 503
    http_response, \* the JSON the latest successful _make_request returned
    pub_last,     \* what the latest _send_message call produced: "ok" or its error
    handlerErrorLogged \* "Error processing campaign message" was logged

VARIABLES
    p_impl,       \* the parser applied: "utils" or "main"
    p_pc,         \* "idle", "parse", "extract", "done"
    p_body,       \* the decoded body handed to the parser
    p_job,        \* what the parser returned or raised
    p_id          \* what extract_campaign_id_from_error returned

consumerVars == <<h_pc, body, accepted, campaign_id, prompt, delegations,
                  delegateFailed, h_attempt, h_last_error, phase, to_send,
                  httpCalls, pubCalls, h_sleeps, published, sendFailures,
                  sendErrorLogged,
                  escaped, settle, settles, http_last, http503s, http_response,
                  pub_last, handlerErrorLogged>>

retryVars == <<options, r_pc, attempt, last_error, calls, op_last, sleeps,
               delay, prevDelay, srCalls, srArg, srResult, result, sync>>

VARIABLES
    m_pc,            \* where main() stands
    in_reconnect,    \* reconnect_and_consume is running
    c_attempt,       \* attempt of the for loop of connect_rabbitmq
    c_last_error,    \* what the last pass of that loop raised, or NoError
    connection,      \* self.connection
    channel,         \* self.channel
    generate_queue,  \* self.generate_queue
    result_queue,    \* self.result_queue
    nextConn,        \* connections made so far
    conn_open,       \* the connections that are open
    consumers,       \* the connections whose channel carries the consumer
    temp_queues,     \* the connections holding a queue of the health probe
    healthy,         \* what is_connection_healthy answered last
    exit_status,     \* the exit status of the process, or "none"
    rc_old,          \* self.connection when reconnect_and_consume started
    generate_ready,  \* jobs ready on campaign.generate
    enqueued,        \* jobs put on campaign.generate so far
    results,         \* envelopes on campaign.result
    wh_pc,           \* where the message callback stands
    wh_conn,         \* the connection its message came on
    wh_published     \* its send_result has put the envelope on the queue

parseVars == <<p_impl, p_pc, p_body, p_job, p_id>>

workerVars == <<m_pc, in_reconnect, c_attempt, c_last_error, connection, channel,
                generate_queue, result_queue, nextConn, conn_open, consumers,
                temp_queues, healthy, exit_status, rc_old, generate_ready,
                enqueued, results, wh_pc, wh_conn, wh_published>>

vars == <<retryVars, consumerVars, parseVars, workerVars>>

InitialDelays == {1000, 25, 0}
MaxDelays == {3000, 10000}
Multipliers == {DefaultBackoffMultiplier, [num |-> 3, den |-> 2]}
JitterPcts == {0, DefaultJitterPct, 100}
Predicates == {"None", "never", "onlyE1", "firstOnly"}
Values == {"v1", "v2"}

OptionSet ==
    {RetryOptions(n, i, m, b, j, p) :
        n \in 0..MaxRetriesBound, i \in InitialDelays, m \in MaxDelays,
        b \in Multipliers, j \in JitterPcts, p \in Predicates}

\* sync_exponential_backoff entered: its locals, and what it has done
SyncStart ==
    [pc |-> "call", attempt |-> 0, last_error |-> NoError, calls |-> 0,
     sleeps |-> 0, delay |-> 0, srCalls |-> 0, srArg |-> -1, srResult |-> "none",
     result |-> [kind |-> "none", value |-> "none"]]

RetryStart ==
    /\ r_pc = "call"
    /\ attempt = 0
    /\ last_error = NoError
    /\ calls = 0
    /\ op_last = "none"
    /\ sleeps = 0
    /\ delay = 0
    /\ prevDelay = 0
    /\ srCalls = 0
    /\ srArg = -1
    /\ srResult = "none"
    /\ result = [kind |-> "none", value |-> "none"]
    /\ sync = SyncStart

NoResult == ResultData(Absent, Absent, Absent, None)
NoResponse == [campaignId |-> Absent, generatedText |-> Absent, imagePath |-> Absent]

\* no message in the handler
HandlerFresh ==
    /\ accepted = FALSE
    /\ campaign_id = Absent
    /\ prompt = Absent
    /\ delegations = 0
    /\ delegateFailed = FALSE
    /\ h_attempt = 0
    /\ h_last_error = NoError
    /\ phase = "none"
    /\ to_send = NoResult
    /\ httpCalls = 0
    /\ pubCalls = 0
    /\ h_sleeps = 0
    /\ published = <<>>
    /\ sendFailures = 0
    /\ sendErrorLogged = FALSE
    /\ escaped = NoError
    /\ settle = "none"
    /\ settles = 0
    /\ http_last = "none"
    /\ http503s = 0
    /\ http_response = NoResponse
    /\ pub_last = "none"
    /\ handlerErrorLogged = FALSE

NoBody == Body(TRUE, "invalid", Absent, Absent, NoEntry, NoEntry, NoEntry)

ConsumerIdle ==
    /\ h_pc = "idle"
    /\ body = NoBody
    /\ HandlerFresh

NoJob == [ok |-> FALSE, campaignId |-> Absent, prompt |-> Absent, error |-> NoError]

\* no parser running
ParseIdle ==
    /\ p_impl = "utils"
    /\ p_pc = "idle"
    /\ p_body = NoBody
    /\ p_job = NoJob
    /\ p_id = Absent

\* the worker of main.py not started
WorkerIdle ==
    /\ m_pc = "off"
    /\ in_reconnect = FALSE
    /\ c_attempt = 0
    /\ c_last_error = NoError
    /\ connection = 0
    /\ channel = 0
    /\ generate_queue = 0
    /\ result_queue = 0
    /\ nextConn = 0
    /\ conn_open = {}
    /\ consumers = {}
    /\ temp_queues = {}
    /\ healthy = "none"
    /\ exit_status = "none"
    /\ rc_old = 0
    /\ generate_ready = 0
    /\ enqueued = 0
    /\ results = 0
    /\ wh_pc = "none"
    /\ wh_conn = 0
    /\ wh_published = FALSE

RetryInit ==
    /\ options \in OptionSet
    /\ RetryStart
    /\ ConsumerIdle
    /\ ParseIdle
    /\ WorkerIdle

\* the result stored and the loop continued while attempts remain
OperationReturnsLate(v) ==
    /\ r_pc = "call"
    /\ calls' = calls + 1
    /\ op_last' = v
    /\ IF attempt < options.max_retries
       THEN /\ attempt' = attempt + 1
            /\ r_pc' = "call"
            /\ UNCHANGED result
       ELSE /\ result' = [kind |-> "return", value |-> v]
            /\ r_pc' = "returned"
            /\ UNCHANGED attempt
    /\ UNCHANGED <<options, last_error, sleeps, delay, prevDelay,
                   srCalls, srArg, srResult>>

\* return await operation(): the attempt succeeds and execute returns
OperationReturns(v) ==
    /\ r_pc = "call"
    /\ calls' = calls + 1
    /\ op_last' = v
    /\ result' = [kind |-> "return", value |-> v]
    /\ r_pc' = "returned"
    /\ UNCHANGED <<options, attempt, last_error, sleeps, delay, prevDelay,
                   srCalls, srArg, srResult>>

\* operation() raises error: the except branch, up to the sleep
OperationRaises(error, r) ==
    /\ r_pc = "call"
    /\ calls' = calls + 1
    /\ op_last' = error
    /\ last_error' = error
    /\ IF ConsultsShouldRetry(options, attempt)
       THEN /\ srCalls' = srCalls + 1
            /\ srArg' = attempt
            /\ srResult' = IF should_retry(options, error, attempt) THEN "true" ELSE "false"
       ELSE UNCHANGED <<srCalls, srArg, srResult>>
    /\ IF execute_except(options, attempt, error) = "sleep"
       THEN /\ delay' = calculate_delay(options, attempt, r)
            /\ prevDelay' = delay
            /\ sleeps' = sleeps + 1
            /\ r_pc' = "sleep"
            /\ UNCHANGED result
       ELSE /\ result' = [kind |-> "raise", value |-> error]
            /\ r_pc' = "raised"
            /\ UNCHANGED <<delay, prevDelay, sleeps>>
    /\ UNCHANGED <<options, attempt>>

\* asyncio.sleep returns: the for loop takes its next value, or is
\* exhausted and falls through to "raise last_error"
SleepReturns ==
    /\ r_pc = "sleep"
    /\ IF attempt + 1 < AttemptRangeEnd(options)
       THEN /\ attempt' = attempt + 1
            /\ r_pc' = "call"
            /\ UNCHANGED result
       ELSE /\ result' = [kind |-> "raise", value |-> last_error]
            /\ r_pc' = "raised"
            /\ UNCHANGED attempt
    /\ UNCHANGED <<options, last_error, calls, op_last, sleeps, delay, prevDelay,
                   srCalls, srArg, srResult>>

RetryNext ==
    \/ \E v \in Values : OperationReturns(v) /\ UNCHANGED <<sync, consumerVars, parseVars, workerVars>>
    \/ \E error \in GenericErrors, r \in 0..(JitterSteps - 1) :
          OperationRaises(error, r) /\ UNCHANGED <<sync, consumerVars, parseVars, workerVars>>
    \/ SleepReturns /\ UNCHANGED <<sync, consumerVars, parseVars, workerVars>>

SpecRetry == RetryInit /\ [][RetryNext]_vars

\* ------------------------------------------------ properties of SpecRetry

\* C5: with a predicate that always answers true, a run that ends in a
\* failure has invoked the operation exactly max_retries + 1 times and
\* raises the error of the last call; no run invokes it more often.
RetryAttemptsExactlyBudget ==
    /\ calls <= options.max_retries + 1
    /\ (r_pc = "raised" /\ options.should_retry = "always")
          => /\ calls = options.max_retries + 1
             /\ result = [kind |-> "raise", value |-> op_last]

RetryBudgetExhausted ==
    /\ r_pc = "raised"
    /\ options.should_retry = "always"
    /\ options.max_retries >= 2
    /\ calls = options.max_retries + 1

\* C6: once should_retry has answered false the run is over: the error of
\* that attempt is raised, the attempt was the last call of the operation,
\* and the only sleeps are those before the earlier retries.
RetryStopsOnRefusal ==
    srResult = "false" =>
        /\ r_pc = "raised"
        /\ result = [kind |-> "raise", value |-> op_last]
        /\ srArg = attempt
        /\ calls = attempt + 1
        /\ sleeps = attempt

RetryRefusedWithBudgetLeft ==
    /\ srResult = "false"
    /\ r_pc = "raised"
    /\ attempt >= 1
    /\ attempt + 2 <= options.max_retries

\* C7: a call of the operation that produces a value ends the run in that
\* step: execute returns the value, the call was number attempt + 1, no
\* sleep follows it, and nothing happens after the return.
RetrySuccessReturnsAtOnce ==
    [][/\ (calls' = calls + 1 /\ op_last' \in Values)
          => /\ r_pc' = "returned"
             /\ result' = [kind |-> "return", value |-> op_last']
             /\ attempt' = attempt
             /\ calls' = attempt + 1
             /\ sleeps' = attempt
       /\ r_pc # "returned"]_vars

RetrySucceededOnLaterAttempt ==
    /\ r_pc = "returned"
    /\ attempt >= 1
    /\ attempt < options.max_retries
    /\ calls = attempt + 1

\* floor(initial_delay_ms * backoff_multiplier ^ attemptArg)
BaseDelayFloor(opts, attemptArg) ==
    (opts.initial_delay_ms * Pow(opts.backoff_multiplier.num, attemptArg))
    \div Pow(opts.backoff_multiplier.den, attemptArg)

\* C8 as stated: the delay slept before attempt i = attempt + 1 is at least
\* initial_delay_ms * backoff_multiplier^(i-1) and at most max_delay_ms.
RetryDelayAtLeastBase ==
    r_pc = "sleep" =>
        /\ delay * Pow(options.backoff_multiplier.den, attempt)
             >= options.initial_delay_ms * Pow(options.backoff_multiplier.num, attempt)
        /\ delay <= options.max_delay_ms

\* C8 amended: the delay slept before attempt i = attempt + 1 is at most
\* max_delay_ms and at least the smaller of max_delay_ms and
\* floor(initial_delay_ms * backoff_multiplier^(i-1)).
RetryDelayWithinCappedInterval ==
    r_pc = "sleep" =>
        /\ delay >= Min(BaseDelayFloor(options, attempt), options.max_delay_ms)
        /\ delay <= options.max_delay_ms

RetryDelayCapped ==
    /\ r_pc = "sleep"
    /\ delay = options.max_delay_ms
    /\ BaseDelayFloor(options, attempt) > options.max_delay_ms

\* ------------------------------------------------------------ the consumer
\* bodies the broker delivers
InboundBodies ==
    {Body(FALSE, "invalid", Absent, Absent, NoEntry, NoEntry, NoEntry),
     Body(TRUE, "invalid", Absent, Absent, NoEntry, NoEntry, NoEntry),
     Body(TRUE, "scalar", Absent, Absent, NoEntry, NoEntry, NoEntry),
     Body(TRUE, "list", Absent, Absent, NoEntry, NoEntry, DictEntry("c1", "p1")),
     DictBody("c1", "p1", NoEntry, NoEntry),
     DictBody(Absent, Absent, DictEntry("c1", "p1"), NoEntry),
     DictBody(Absent, Absent, NoEntry, DictEntry("c1", "p1")),
     DictBody("c2", Absent, DictEntry("c1", "p1"), NoEntry),
     DictBody("c1", Absent, NoEntry, NoEntry),
     DictBody(Absent, Absent, NoEntry, NoEntry),
     DictBody(Absent, Absent, DictEntry("c1", Absent), NoEntry),
     DictBody(Absent, Absent, NoEntry, ScalarEntry)}

\* JSON bodies of a 2xx answer of the generator to a request for campaign c
Responses(c) ==
    {[campaignId |-> rc, generatedText |-> "text", imagePath |-> "/app/output/img.png"] :
        rc \in {c, "c9", Absent}}
    \cup {[campaignId |-> c, generatedText |-> Absent, imagePath |-> "/app/output/img.png"],
          [campaignId |-> c, generatedText |-> "text", imagePath |-> Absent]}

\* the except branch entered without leaving the try block behind
EnterErrorPathInsideTry(e) ==
    /\ handlerErrorLogged' = TRUE
    /\ to_send' = error_result(extract_campaign_id_from_error(body), e)
    /\ phase' = phase
    /\ h_attempt' = 0
    /\ h_last_error' = NoError
    /\ h_pc' = "publish"

\* the except branch of the handler up to its send_result call
EnterErrorPath(e) ==
    /\ handlerErrorLogged' = TRUE
    /\ to_send' = error_result(extract_campaign_id_from_error(body), e)
    /\ phase' = "error"
    /\ h_attempt' = 0
    /\ h_last_error' = NoError
    /\ h_pc' = "publish"

\* delegate_to_generator returns result and the handler calls send_result
EnterPrimaryPublish(result_data) ==
    /\ to_send' = result_data
    /\ phase' = "primary"
    /\ h_attempt' = 0
    /\ h_last_error' = NoError
    /\ h_pc' = "publish"

\* the broker hands a message to the callback
Deliver(b) ==
    /\ h_pc \in {"idle", "settled"}
    /\ body' = b
    /\ h_pc' = "start"
    /\ accepted' = FALSE
    /\ campaign_id' = Absent
    /\ prompt' = Absent
    /\ delegations' = 0
    /\ delegateFailed' = FALSE
    /\ h_attempt' = 0
    /\ h_last_error' = NoError
    /\ phase' = "none"
    /\ to_send' = NoResult
    /\ httpCalls' = 0
    /\ pubCalls' = 0
    /\ h_sleeps' = 0
    /\ published' = <<>>
    /\ sendFailures' = 0
    /\ sendErrorLogged' = FALSE
    /\ escaped' = NoError
    /\ settle' = "none"
    /\ settles' = 0
    /\ http_last' = "none"
    /\ http503s' = 0
    /\ http_response' = NoResponse
    /\ pub_last' = "none"
    /\ handlerErrorLogged' = FALSE
    /\ UNCHANGED <<retryVars, parseVars, workerVars>>

\* message.process() entered; decode and parse, up to the first await
HandlerStart ==
    /\ h_pc = "start"
    /\ IF ~body.utf8
       THEN \* decode() raises at the top of the try and again in the except branch
            /\ escaped' = "UnicodeDecodeError"
            /\ handlerErrorLogged' = TRUE
            /\ h_pc' = "exit"
            /\ UNCHANGED <<accepted, campaign_id, prompt, delegations, h_attempt,
                           h_last_error, phase, to_send>>
       ELSE IF parse_campaign_message(body).ok
       THEN /\ accepted' = TRUE
            /\ campaign_id' = parse_campaign_message(body).campaignId
            /\ prompt' = parse_campaign_message(body).prompt
            /\ delegations' = delegations + 1
            /\ h_attempt' = 0
            /\ h_last_error' = NoError
            /\ h_pc' = "http"
            /\ UNCHANGED <<escaped, phase, to_send, handlerErrorLogged>>
       ELSE /\ EnterErrorPath(parse_campaign_message(body).error)
            /\ UNCHANGED <<accepted, campaign_id, prompt, delegations, escaped>>
    /\ UNCHANGED <<body, delegateFailed, httpCalls, pubCalls, h_sleeps, published,
                   sendFailures, sendErrorLogged, settle, settles>>
    /\ UNCHANGED <<http_last, http503s, http_response, pub_last>>
    /\ UNCHANGED <<retryVars, parseVars, workerVars>>

\* _make_request returns the JSON of a 2xx answer
HttpReturns(response) ==
    /\ h_pc = "http"
    /\ httpCalls' = httpCalls + 1
    /\ delegateFailed' = (ResponseKeyError(response) # NoError)
    /\ EnterPrimaryPublish(delegate_result(campaign_id, response))
    /\ UNCHANGED <<body, accepted, campaign_id, prompt, delegations, pubCalls,
                   h_sleeps, published, sendFailures, sendErrorLogged, escaped,
                   settle, settles>>
    /\ http_last' = "ok"
    /\ UNCHANGED http503s
    /\ http_response' = response
    /\ UNCHANGED <<pub_last, handlerErrorLogged>>
    /\ UNCHANGED <<retryVars, parseVars, workerVars>>

\* _make_request raises: the executor sleeps, or raises into delegate's except
HttpRaises(error) ==
    /\ h_pc = "http"
    /\ httpCalls' = httpCalls + 1
    /\ IF execute_except(HttpOptions, h_attempt, error) = "sleep"
       THEN /\ h_last_error' = error
            /\ h_sleeps' = h_sleeps + 1
            /\ h_pc' = "http_sleep"
            /\ UNCHANGED <<delegateFailed, h_attempt, phase, to_send>>
       ELSE /\ delegateFailed' = TRUE
            /\ EnterPrimaryPublish(delegate_failure(campaign_id, error))
            /\ UNCHANGED h_sleeps
    /\ UNCHANGED <<body, accepted, campaign_id, prompt, delegations, pubCalls,
                   published, sendFailures, sendErrorLogged, escaped, settle, settles>>
    /\ http_last' = error
    /\ http503s' = IF StatusCode(error) = 503 THEN http503s + 1 ELSE http503s
    /\ UNCHANGED <<http_response, pub_last, handlerErrorLogged>>
    /\ UNCHANGED <<retryVars, parseVars, workerVars>>

\* the message acknowledged while the delegation is still asleep
HttpSleepReturnsAcked ==
    /\ h_pc = "http_sleep"
    /\ settle' = "ack"
    /\ IF h_attempt + 1 < AttemptRangeEnd(HttpOptions)
       THEN /\ h_attempt' = h_attempt + 1
            /\ h_pc' = "http"
            /\ UNCHANGED <<delegateFailed, h_last_error, phase, to_send>>
       ELSE /\ delegateFailed' = TRUE
            /\ EnterPrimaryPublish(delegate_failure(campaign_id, h_last_error))
    /\ UNCHANGED <<body, accepted, campaign_id, prompt, delegations, httpCalls,
                   pubCalls, h_sleeps, published, sendFailures, sendErrorLogged,
                   escaped, settles>>
    /\ UNCHANGED <<http_last, http503s, http_response, pub_last, handlerErrorLogged>>
    /\ UNCHANGED <<retryVars, parseVars, workerVars>>

\* the sleep between two HTTP attempts is over
HttpSleepReturns ==
    /\ h_pc = "http_sleep"
    /\ IF h_attempt + 1 < AttemptRangeEnd(HttpOptions)
       THEN /\ h_attempt' = h_attempt + 1
            /\ h_pc' = "http"
            /\ UNCHANGED <<delegateFailed, h_last_error, phase, to_send>>
       ELSE /\ delegateFailed' = TRUE
            /\ EnterPrimaryPublish(delegate_failure(campaign_id, h_last_error))
    /\ UNCHANGED <<body, accepted, campaign_id, prompt, delegations, httpCalls,
                   pubCalls, h_sleeps, published, sendFailures, sendErrorLogged,
                   escaped, settle, settles>>
    /\ UNCHANGED <<http_last, http503s, http_response, pub_last, handlerErrorLogged>>
    /\ UNCHANGED <<retryVars, parseVars, workerVars>>

\* the publish went through, and a later statement of the try block raises
PublishReturnsThenRaises ==
    /\ h_pc = "publish"
    /\ pubCalls' = pubCalls + 1
    /\ published' = Append(published, ResultMessage(to_send))
    /\ IF phase = "primary"
       THEN EnterErrorPath("late failure")
       ELSE /\ h_pc' = "exit"
            /\ UNCHANGED <<h_attempt, h_last_error, phase, to_send, handlerErrorLogged>>
    /\ UNCHANGED <<body, accepted, campaign_id, prompt, delegations, delegateFailed,
                   httpCalls, h_sleeps, sendFailures, sendErrorLogged, escaped,
                   settle, settles>>
    /\ pub_last' = "ok"
    /\ UNCHANGED <<http_last, http503s, http_response>>
    /\ UNCHANGED <<retryVars, parseVars, workerVars>>

\* _send_message publishes; send_result returns and the handler leaves the block
PublishReturns ==
    /\ h_pc = "publish"
    /\ pubCalls' = pubCalls + 1
    /\ published' = Append(published, ResultMessage(to_send))
    /\ h_pc' = "exit"
    /\ UNCHANGED <<body, accepted, campaign_id, prompt, delegations, delegateFailed,
                   h_attempt, h_last_error, phase, to_send, httpCalls, h_sleeps,
                   sendFailures, sendErrorLogged, escaped, settle, settles>>
    /\ pub_last' = "ok"
    /\ UNCHANGED <<http_last, http503s, http_response, handlerErrorLogged>>
    /\ UNCHANGED <<retryVars, parseVars, workerVars>>

\* a failed send_result swallowed: no error envelope, no log entry
PublishRaisesSwallowed(error) ==
    /\ h_pc = "publish"
    /\ pubCalls' = pubCalls + 1
    /\ IF execute_except(PublishOptions, h_attempt, error) = "sleep"
       THEN /\ h_last_error' = error
            /\ h_sleeps' = h_sleeps + 1
            /\ h_pc' = "publish_sleep"
            /\ UNCHANGED <<h_attempt, phase, to_send, sendFailures>>
       ELSE /\ sendFailures' = sendFailures + 1
            /\ h_pc' = "exit"
            /\ UNCHANGED <<h_attempt, h_last_error, phase, to_send, h_sleeps>>
    /\ UNCHANGED <<body, accepted, campaign_id, prompt, delegations, delegateFailed,
                   httpCalls, published, sendErrorLogged, escaped, settle, settles>>
    /\ pub_last' = error
    /\ UNCHANGED <<http_last, http503s, http_response, handlerErrorLogged>>
    /\ UNCHANGED <<retryVars, parseVars, workerVars>>

\* a failed send_result of the job's envelope answered by delegating again
PublishRaisesRedelegates(error) ==
    /\ h_pc = "publish"
    /\ pubCalls' = pubCalls + 1
    /\ IF execute_except(PublishOptions, h_attempt, error) = "sleep"
       THEN /\ h_last_error' = error
            /\ h_sleeps' = h_sleeps + 1
            /\ h_pc' = "publish_sleep"
            /\ UNCHANGED <<h_attempt, phase, to_send, sendFailures, sendErrorLogged,
                           handlerErrorLogged, delegations>>
       ELSE /\ sendFailures' = sendFailures + 1
            /\ IF phase = "primary" /\ delegations < 2
               THEN /\ delegations' = delegations + 1
                    /\ h_attempt' = 0
                    /\ h_last_error' = NoError
                    /\ h_pc' = "http"
                    /\ UNCHANGED <<sendErrorLogged, phase, to_send, handlerErrorLogged>>
               ELSE /\ sendErrorLogged' = TRUE
                    /\ h_pc' = "exit"
                    /\ UNCHANGED <<h_attempt, h_last_error, phase, to_send,
                                   handlerErrorLogged, delegations>>
            /\ UNCHANGED h_sleeps
    /\ UNCHANGED <<body, accepted, campaign_id, prompt, delegateFailed,
                   httpCalls, published, escaped, settle, settles>>
    /\ pub_last' = error
    /\ UNCHANGED <<http_last, http503s, http_response>>
    /\ UNCHANGED <<retryVars, parseVars, workerVars>>

\* a failed send_result of the error envelope leaving the handler
PublishRaisesEscapes(error) ==
    /\ h_pc = "publish"
    /\ pubCalls' = pubCalls + 1
    /\ IF execute_except(PublishOptions, h_attempt, error) = "sleep"
       THEN /\ h_last_error' = error
            /\ h_sleeps' = h_sleeps + 1
            /\ h_pc' = "publish_sleep"
            /\ UNCHANGED <<h_attempt, phase, to_send, sendFailures, sendErrorLogged,
                           handlerErrorLogged, escaped>>
       ELSE /\ sendFailures' = sendFailures + 1
            /\ IF phase = "primary"
               THEN /\ EnterErrorPath(error)
                    /\ UNCHANGED <<sendErrorLogged, escaped>>
               ELSE /\ escaped' = error
                    /\ h_pc' = "exit"
                    /\ UNCHANGED <<h_attempt, h_last_error, phase, to_send,
                                   handlerErrorLogged, sendErrorLogged>>
            /\ UNCHANGED h_sleeps
    /\ UNCHANGED <<body, accepted, campaign_id, prompt, delegations, delegateFailed,
                   httpCalls, published, settle, settles>>
    /\ pub_last' = error
    /\ UNCHANGED <<http_last, http503s, http_response>>
    /\ UNCHANGED <<retryVars, parseVars, workerVars>>

\* _send_message raises: the executor sleeps, or send_result raises into the
\* handler: the first time into the except branch, which publishes an error
\* envelope, the second time into the inner except, which logs
PublishRaises(error) ==
    /\ h_pc = "publish"
    /\ pubCalls' = pubCalls + 1
    /\ IF execute_except(PublishOptions, h_attempt, error) = "sleep"
       THEN /\ h_last_error' = error
            /\ h_sleeps' = h_sleeps + 1
            /\ h_pc' = "publish_sleep"
            /\ UNCHANGED <<h_attempt, phase, to_send, sendFailures, sendErrorLogged,
                           handlerErrorLogged>>
       ELSE /\ sendFailures' = sendFailures + 1
            /\ IF phase = "primary"
               THEN /\ EnterErrorPath(error)
                    /\ UNCHANGED sendErrorLogged
               ELSE /\ sendErrorLogged' = TRUE
                    /\ h_pc' = "exit"
                    /\ UNCHANGED <<h_attempt, h_last_error, phase, to_send,
                                   handlerErrorLogged>>
            /\ UNCHANGED h_sleeps
    /\ UNCHANGED <<body, accepted, campaign_id, prompt, delegations, delegateFailed,
                   httpCalls, published, escaped, settle, settles>>
    /\ pub_last' = error
    /\ UNCHANGED <<http_last, http503s, http_response>>
    /\ UNCHANGED <<retryVars, parseVars, workerVars>>

\* the sleep between two publish attempts is over
PublishSleepReturns ==
    /\ h_pc = "publish_sleep"
    /\ IF h_attempt + 1 < AttemptRangeEnd(PublishOptions)
       THEN /\ h_attempt' = h_attempt + 1
            /\ h_pc' = "publish"
            /\ UNCHANGED <<h_last_error, phase, to_send, sendFailures, sendErrorLogged,
                           handlerErrorLogged>>
       ELSE /\ sendFailures' = sendFailures + 1
            /\ IF phase = "primary"
               THEN /\ EnterErrorPath(h_last_error)
                    /\ UNCHANGED sendErrorLogged
               ELSE /\ sendErrorLogged' = TRUE
                    /\ h_pc' = "exit"
                    /\ UNCHANGED <<h_attempt, h_last_error, phase, to_send,
                                   handlerErrorLogged>>
    /\ UNCHANGED <<body, accepted, campaign_id, prompt, delegations, delegateFailed,
                   httpCalls, pubCalls, h_sleeps, published, escaped, settle, settles>>
    /\ UNCHANGED <<http_last, http503s, http_response, pub_last>>
    /\ UNCHANGED <<retryVars, parseVars, workerVars>>

\* the block of message.process() is left: the message is acknowledged, or
\* rejected when an exception leaves the block
ProcessExit ==
    /\ h_pc = "exit"
    /\ settle' = process_exit(escaped)
    /\ settles' = IF process_exit(escaped) = "none" THEN settles ELSE settles + 1
    /\ h_pc' = "settled"
    /\ UNCHANGED <<body, accepted, campaign_id, prompt, delegations, delegateFailed,
                   h_attempt, h_last_error, phase, to_send, httpCalls, pubCalls,
                   h_sleeps, published, sendFailures, sendErrorLogged, escaped>>
    /\ UNCHANGED <<http_last, http503s, http_response, pub_last, handlerErrorLogged>>
    /\ UNCHANGED <<retryVars, parseVars, workerVars>>

ConsumerInit ==
    /\ options = RetryOptions(DefaultMaxRetries, DefaultInitialDelayMs, DefaultMaxDelayMs,
                              DefaultBackoffMultiplier, DefaultJitterPct, "None")
    /\ RetryStart
    /\ ConsumerIdle
    /\ ParseIdle
    /\ WorkerIdle

HandlerStep ==
    \/ HandlerStart
    \/ \E response \in Responses(campaign_id) : HttpReturns(response)
    \/ \E error \in HttpErrors : HttpRaises(error)
    \/ HttpSleepReturns
    \/ PublishReturns
    \/ \E error \in PublishErrors : PublishRaises(error)
    \/ PublishSleepReturns
    \/ ProcessExit

ConsumerNext ==
    \/ \E b \in InboundBodies : Deliver(b)
    \/ HandlerStep

SpecConsumer == ConsumerInit /\ [][ConsumerNext]_vars

FairConsumer == SpecConsumer /\ WF_vars(HandlerStep)

\* --------------------------------------------- properties of the consumer

\* C1: a delivered message is settled, and settled once: the handler always
\* reaches the end of message.process(), by then exactly one ack or reject
\* has been issued, and never more than one.
HandlerSettlesExactlyOnce ==
    /\ [](settles <= 1)
    /\ [](h_pc = "settled" => (settles = 1 /\ settle \in {"ack", "reject"}))
    /\ [](h_pc # "settled" => (settles = 0 /\ settle = "none"))
    /\ (h_pc = "start" ~> h_pc = "settled")

SettledAfterException ==
    /\ h_pc = "settled"
    /\ escaped # NoError
    /\ settle = "reject"
    /\ settles = 1

\* C2: no exception leaves process_campaign_message, whatever the body.
HandlerNeverRaises ==
    escaped = NoError

\* C3 as stated: a settled message that parsed has exactly one envelope on
\* the result queue.
ExactlyOneEnvelopePerJob ==
    (h_pc = "settled" /\ accepted) => Len(published) = 1

\* C3 amended: never two envelopes for one message; a parsed job has
\* exactly one unless send_result raised both for the job's envelope and
\* for the error envelope that replaces it, and then it has none.
AtMostOneEnvelopePerJob ==
    /\ Len(published) <= 1
    /\ (h_pc = "settled" /\ accepted)
          => (Len(published) = 1 <=> sendFailures < 2)
    /\ (h_pc = "settled" /\ accepted /\ sendFailures = 2) => sendErrorLogged

ErrorEnvelopeReplacesFailedPublish ==
    /\ h_pc = "settled"
    /\ accepted
    /\ sendFailures = 1
    /\ Len(published) = 1

SuccessEnvelopePublished ==
    \E i \in 1..Len(published) : published[i].data.error = None

ErrorEnvelopePublished ==
    \E i \in 1..Len(published) : published[i].data.error # None

\* C4 as stated: an acknowledged message has a success envelope, an error
\* envelope, or a publish failure that was logged and left the handler as
\* an exception.
AckedIsReportedOrFaulted ==
    settle = "ack" =>
        \/ SuccessEnvelopePublished
        \/ ErrorEnvelopePublished
        \/ (sendErrorLogged /\ escaped # NoError)

\* C4 amended: an acknowledged message has a success envelope, an error
\* envelope, or a logged publish failure; the failure is logged only and
\* the handler returns normally.
AckedIsReportedOrLogged ==
    settle = "ack" =>
        \/ SuccessEnvelopePublished
        \/ ErrorEnvelopePublished
        \/ (sendErrorLogged /\ sendFailures >= 1 /\ escaped = NoError)

AckedWithLoggedPublishFailure ==
    /\ settle = "ack"
    /\ published = <<>>
    /\ sendErrorLogged

\* the campaignId values a body holds anywhere
BodyIds(b) ==
    {b.campaignId, b.data.campaignId, b.zero.campaignId, b.first.campaignId} \ {Absent}

\* C9: a message whose body does not parse ends with one error envelope on
\* the result queue, with a campaignId of the body or "unknown", empty
\* generatedText and imagePath and the parse error as error, and is
\* acknowledged.
ParseFailureYieldsErrorEnvelope ==
    (h_pc = "settled" /\ ~accepted) =>
        /\ Len(published) = 1
        /\ published[1].data.campaignId \in BodyIds(body) \cup {"unknown"}
        /\ published[1].data.generatedText = ""
        /\ published[1].data.imagePath = ""
        /\ published[1].data.error = parse_campaign_message(body).error
        /\ settle = "ack"

\* C10: after a failed delegation every envelope published for the job has
\* the job's campaignId, empty generatedText and imagePath and a non-empty
\* error, and the message is acknowledged.
DelegationFailureYieldsErrorEnvelope ==
    (h_pc = "settled" /\ delegateFailed) =>
        /\ \A i \in 1..Len(published) :
              /\ published[i].data.campaignId = campaign_id
              /\ published[i].data.generatedText = ""
              /\ published[i].data.imagePath = ""
              /\ published[i].data.error \notin {None, ""}
        /\ settle = "ack"

\* C11: when every request of the delegation is answered with status 503,
\* the HTTP call is made exactly 4 times (max_retries = 3), the delegation
\* fails, and the result handed to send_result is an error envelope with
\* the parsed campaignId and a non-empty error; it is what goes on the
\* result queue when that publish succeeds.
All503RetriedToCapThenErrorEnvelope ==
    /\ (httpCalls >= 1 /\ http503s = httpCalls) => httpCalls <= 4
    /\ (httpCalls >= 1 /\ http503s = httpCalls /\ h_pc \notin {"http", "http_sleep"}) =>
          /\ httpCalls = 4
          /\ delegateFailed
          /\ phase = "primary" =>
                /\ to_send.campaignId = campaign_id
                /\ to_send.generatedText = ""
                /\ to_send.imagePath = ""
                /\ to_send.error \notin {None, ""}
                /\ \A i \in 1..Len(published) : published[i].data = to_send

All503ErrorEnvelopePublished ==
    /\ h_pc = "settled"
    /\ http503s = 4
    /\ httpCalls = 4
    /\ phase = "primary"
    /\ Len(published) = 1
    /\ published[1].data.campaignId = "c1"
    /\ published[1].data.error # None

\* the failures the Delegator is to retry
RetryableHttpFailures ==
    {"HTTPStatusError 503", "HTTPStatusError 429", "ConnectError", "TimeoutException"}

\* C12: a failed HTTP call is followed by a sleep and another call exactly
\* when the failure is a connection failure, a timeout, a status >= 500 or
\* status 429 and attempts remain; after any other failure, and after a 2xx
\* answer (well-formed or not), the delegation ends in that step without a
\* sleep, the failing call was call number attempt + 1, and no HTTP call
\* follows for the message.
HttpRetriedExactlyWhenTransient ==
    [][/\ (httpCalls' = httpCalls + 1 /\ http_last' \in HttpErrors) =>
             IF http_last' \in RetryableHttpFailures /\ h_attempt < HttpMaxRetries
             THEN /\ h_pc' = "http_sleep"
                  /\ h_sleeps' = h_sleeps + 1
             ELSE /\ h_pc' = "publish"
                  /\ h_sleeps' = h_sleeps
                  /\ httpCalls' = h_attempt + 1
                  /\ delegateFailed'
                  /\ to_send'.error \notin {None, ""}
       /\ (httpCalls' = httpCalls + 1 /\ http_last' = "ok") =>
             /\ h_pc' = "publish"
             /\ h_sleeps' = h_sleeps
             /\ delegateFailed' = (ResponseKeyError(http_response') # NoError)
       /\ (h_pc \in {"publish", "publish_sleep", "exit"}) => httpCalls' = httpCalls]_vars

HttpFailedOnceWithoutRetry ==
    /\ h_pc = "publish"
    /\ phase = "primary"
    /\ http_last = "HTTPStatusError 404"
    /\ httpCalls = 1
    /\ h_sleeps = 0
    /\ delegateFailed

\* C13: delegate_to_generator runs at most once per message, also after it
\* failed and after a publish failed, and the message never sees more HTTP
\* calls than the cap of one delegation.
DelegatedAtMostOnce ==
    /\ delegations <= 1
    /\ httpCalls <= HttpMaxRetries + 1
    /\ (h_pc \in {"publish", "publish_sleep", "exit", "settled"} /\ accepted) => delegations = 1

DelegationFailedAndNotRepeated ==
    /\ h_pc = "settled"
    /\ delegateFailed
    /\ sendFailures >= 1
    /\ delegations = 1
    /\ httpCalls = HttpMaxRetries + 1

\* C14 as stated: when the delegation succeeded and its envelope was
\* published, the envelope carries the campaignId of the inbound message,
\* the generatedText and imagePath of the downstream's response, and no
\* error, whatever campaignId the response itself carries.
SuccessEnvelopeCarriesInboundId ==
    (accepted /\ http_last = "ok" /\ ~delegateFailed /\ phase = "primary"
        /\ Len(published) >= 1) =>
       published[1].data =
           ResultData(campaign_id, http_response.generatedText, http_response.imagePath, None)

\* C15: every envelope on the result queue with an error set has the empty
\* string as generatedText and as imagePath.
ErrorImpliesEmptyFields ==
    \A i \in 1..Len(published) :
        published[i].data.error # None =>
            /\ published[i].data.generatedText = ""
            /\ published[i].data.imagePath = ""

DelegationErrorEnvelopePublished ==
    /\ delegateFailed
    /\ phase = "primary"
    /\ Len(published) = 1
    /\ published[1].data.error # None
    /\ published[1].data.generatedText = ""

\* the publish failures the ResultPublisher is to retry
TransientPublishFailures ==
    {"Connection reset by peer", "Channel closed by RPC timeout",
     "Temporary failure in name resolution", "Broker unavailable"}

\* C19: a failed publish is followed by a sleep and another publish exactly
\* when the failure is transient and attempts remain, and a send_result makes
\* at most max_retries + 1 publishes; any other failure ends the
\* send_result in that step, with no sleep, so a non-transient failure of
\* the first publish propagates after that one publish.
PublishRetriedOnlyWhenTransient ==
    [][/\ (pubCalls' = pubCalls + 1) => h_attempt <= PublishMaxRetries
       /\ (pubCalls' = pubCalls + 1 /\ pub_last' \in PublishErrors) =>
             IF pub_last' \in TransientPublishFailures /\ h_attempt < PublishMaxRetries
             THEN /\ h_pc' = "publish_sleep"
                  /\ h_sleeps' = h_sleeps + 1
                  /\ sendFailures' = sendFailures
             ELSE /\ h_pc' \in {"publish", "exit"}
                  /\ h_sleeps' = h_sleeps
                  /\ sendFailures' = sendFailures + 1
                  /\ (h_pc' = "publish") => (phase' = "error" /\ h_attempt' = 0)]_vars

NonTransientPublishFailedOnce ==
    /\ h_pc = "publish"
    /\ phase = "error"
    /\ pub_last = "Channel invalid state"
    /\ pubCalls = 1
    /\ sendFailures = 1
    /\ h_sleeps = 0

\* C20: once a send_result has failed for good, the handler has logged the
\* failure and the message is acknowledged: it is never rejected, and
\* nothing leaves the handler.
PublishFailureStillAcked ==
    /\ sendFailures >= 1 => (handlerErrorLogged /\ escaped = NoError)
    /\ sendFailures >= 2 => sendErrorLogged
    /\ (h_pc = "settled" /\ sendFailures >= 1) => settle = "ack"

AckedAfterRetriedPublishFailed ==
    /\ h_pc = "settled"
    /\ settle = "ack"
    /\ sendFailures = 2
    /\ sendErrorLogged
    /\ pubCalls = 2 * (PublishMaxRetries + 1)
    /\ published = <<>>

\* ------------------------------------------------------------ SpecParse
\* the parsers applied to every body built from these values; the key
\* "pattern" of an enveloped body is read by neither parser and is left out
Ids == {"c1", "c2"}
Prompts == {"p1", "p2"}
MaybeIds == Ids \cup {Absent}
MaybePrompts == Prompts \cup {Absent}

Entries ==
    {NoEntry, ScalarEntry} \cup {DictEntry(c, p) : c \in MaybeIds, p \in MaybePrompts}

ParseBodies ==
    {Body(TRUE, "invalid", Absent, Absent, NoEntry, NoEntry, NoEntry),
     Body(TRUE, "scalar", Absent, Absent, NoEntry, NoEntry, NoEntry)}
    \cup {Body(TRUE, "list", Absent, Absent, NoEntry, NoEntry, first) : first \in Entries}
    \cup {DictBody(c, p, data, zero) :
             c \in MaybeIds, p \in MaybePrompts, data \in Entries, zero \in Entries}

ParseInit ==
    /\ options = RetryOptions(DefaultMaxRetries, DefaultInitialDelayMs, DefaultMaxDelayMs,
                              DefaultBackoffMultiplier, DefaultJitterPct, "None")
    /\ RetryStart
    /\ ConsumerIdle
    /\ WorkerIdle
    /\ p_impl \in {"utils", "main"}
    /\ p_pc = "parse"
    /\ p_body \in ParseBodies
    /\ p_job = NoJob
    /\ p_id = Absent

\* the parser returns campaign_id, prompt
ParseReturns ==
    /\ p_pc = "parse"
    /\ parse_of(p_impl, p_body).ok
    /\ p_job' = parse_of(p_impl, p_body)
    /\ p_pc' = "done"
    /\ UNCHANGED <<p_impl, p_body, p_id>>
    /\ UNCHANGED <<retryVars, consumerVars, workerVars>>

\* the parser raises; the handler of consumer.py then asks the extractor
ParseRaises ==
    /\ p_pc = "parse"
    /\ ~parse_of(p_impl, p_body).ok
    /\ p_job' = parse_of(p_impl, p_body)
    /\ p_pc' = IF p_impl = "utils" THEN "extract" ELSE "done"
    /\ UNCHANGED <<p_impl, p_body, p_id>>
    /\ UNCHANGED <<retryVars, consumerVars, workerVars>>

ExtractReturns ==
    /\ p_pc = "extract"
    /\ p_id' = extract_campaign_id_from_error(p_body)
    /\ p_pc' = "done"
    /\ UNCHANGED <<p_impl, p_body, p_job>>
    /\ UNCHANGED <<retryVars, consumerVars, workerVars>>

\* the job was parsed and send_result raised later in the try block: the
\* except branch of the handler of consumer.py asks the extractor
ExtractAfterParse ==
    /\ p_pc = "done"
    /\ p_impl = "utils"
    /\ p_job.ok
    /\ p_id = Absent
    /\ p_id' = extract_campaign_id_from_error(p_body)
    /\ UNCHANGED <<p_impl, p_pc, p_body, p_job>>
    /\ UNCHANGED <<retryVars, consumerVars, workerVars>>

ParseNext ==
    \/ ParseReturns
    \/ ParseRaises
    \/ ExtractReturns
    \/ ExtractAfterParse

SpecParse == ParseInit /\ [][ParseNext]_vars

\* the three shapes of section "Parser"
FlatBody(c, p) == DictBody(c, p, NoEntry, NoEntry)
EnvelopedBody(c, p) == DictBody(Absent, Absent, DictEntry(c, p), NoEntry)
IndexedBody(c, p) == DictBody(Absent, Absent, NoEntry, DictEntry(c, p))

\* C16: for every campaignId c and prompt p, the flat, the enveloped and
\* the indexed body of (c, p) are all parsed to the job (c, p).
ParseSameJobForAllShapes ==
    \A c \in Ids, p \in Prompts :
        (p_pc \notin {"idle", "parse"}
            /\ p_body \in {FlatBody(c, p), EnvelopedBody(c, p), IndexedBody(c, p)}) =>
           p_job = Job(c, p)

IndexedBodyParsed ==
    /\ p_pc = "done"
    /\ p_body = IndexedBody("c2", "p2")
    /\ p_job = Job("c2", "p2")

\* campaignId and prompt both at the top level of an object
HasFlatKeys(b) == b.campaignId # Absent /\ b.prompt # Absent

\* an entry that is an object holding campaignId and prompt
HoldsJob(entry) ==
    entry.kind = "dict" /\ entry.campaignId # Absent /\ entry.prompt # Absent

ArrayBodyParsed ==
    (p_pc \notin {"idle", "parse"} /\ p_body.kind = "list" /\ HoldsJob(p_body.first)) =>
        p_job = Job(p_body.first.campaignId, p_body.first.prompt)

\* C21: within one message the delegation starts only with the parsed job,
\* HTTP calls come before every publish, and the message is settled only at
\* the exit of the handler, after the last publish has returned or failed
\* for good; once settled, nothing more is called or published for it.
StepsInOrder ==
    [][/\ (delegations' = delegations + 1) =>
             (h_pc = "start" /\ accepted' /\ httpCalls = 0 /\ pubCalls = 0)
       /\ (httpCalls' = httpCalls + 1) =>
             (accepted /\ delegations = 1 /\ pubCalls = 0 /\ settle = "none")
       /\ (pubCalls' = pubCalls + 1) =>
             (h_pc = "publish" /\ (accepted => delegations = 1)
                 /\ settle = "none" /\ settle' = "none")
       /\ (settle' # settle /\ settle' # "none") =>
             /\ h_pc = "exit"
             /\ h_pc' = "settled"
             /\ pubCalls' = pubCalls
             /\ httpCalls' = httpCalls
             /\ settle' = "ack" => (pubCalls >= 1 /\ (pub_last = "ok" \/ sendErrorLogged))
       /\ (h_pc = "settled" /\ h_pc' # "start") =>
             (pubCalls' = pubCalls /\ httpCalls' = httpCalls /\ published' = published)]_vars

AckedAfterRetriedDelegationAndPublish ==
    /\ h_pc = "settled"
    /\ settle = "ack"
    /\ accepted
    /\ httpCalls >= 2
    /\ pubCalls >= 2
    /\ Len(published) = 1

\* ------------------------------------------------------------ SpecWorker
\* CampaignWorker of main.py: connect_rabbitmq, start_consuming,
\* reconnect_and_consume, is_connection_healthy, the health loop of main()
\* and one message callback in flight.  A connection is a number, 0 is an
\* attribute not yet set; channel and queue references are written as the
\* number of the connection they live on.
MaxConnections == 3
MaxJobs == 1

\* connect_rabbitmq(self, max_retries=30, retry_delay=2)
ConnectMaxRetries == 30

DialErrors == {"ProbableAuthenticationError", "ConnectionRefusedError"}
SetupErrors == {"ChannelInvalidStateError"}
ConnectPositions == {"dial", "open_channel", "declare_generate", "declare_result"}

WorkerInit ==
    /\ options = RetryOptions(DefaultMaxRetries, DefaultInitialDelayMs, DefaultMaxDelayMs,
                              DefaultBackoffMultiplier, DefaultJitterPct, "None")
    /\ RetryStart
    /\ ConsumerIdle
    /\ ParseIdle
    /\ m_pc = "start"
    /\ in_reconnect = FALSE
    /\ c_attempt = 0
    /\ c_last_error = NoError
    /\ connection = 0
    /\ channel = 0
    /\ generate_queue = 0
    /\ result_queue = 0
    /\ nextConn = 0
    /\ conn_open = {}
    /\ consumers = {}
    /\ temp_queues = {}
    /\ healthy = "none"
    /\ exit_status = "none"
    /\ rc_old = 0
    /\ generate_ready = 0
    /\ enqueued = 0
    /\ results = 0
    /\ wh_pc = "none"
    /\ wh_conn = 0
    /\ wh_published = FALSE

otherVars == <<retryVars, consumerVars, parseVars>>

connVars == <<connection, channel, generate_queue, result_queue>>
brokerVars == <<nextConn, conn_open, consumers, temp_queues>>
queueVars == <<generate_ready, enqueued, results>>
handlerVars == <<wh_pc, wh_conn, wh_published>>

\* the connection x goes away: its consumer and its exclusive queues with
\* it, and a message delivered on it and not yet acknowledged is ready again
Closing(x) ==
    /\ conn_open' = conn_open \ {x}
    /\ consumers' = consumers \ {x}
    /\ temp_queues' = temp_queues \ {x}
    /\ generate_ready' = IF x \in conn_open /\ wh_pc # "none" /\ wh_conn = x
                         THEN generate_ready + 1 ELSE generate_ready

\* main() calls worker.connect_rabbitmq()
MainStart ==
    /\ m_pc = "start"
    /\ m_pc' = "dial"
    /\ c_attempt' = 0
    /\ c_last_error' = NoError
    /\ UNCHANGED <<in_reconnect, healthy, exit_status, rc_old>>
    /\ UNCHANGED <<connVars, brokerVars, queueVars, handlerVars, otherVars>>

\* connect(self.rabbitmq_url) returns a new connection
DialReturns ==
    /\ m_pc = "dial"
    /\ nextConn < MaxConnections
    /\ nextConn' = nextConn + 1
    /\ conn_open' = conn_open \cup {nextConn + 1}
    /\ connection' = nextConn + 1
    /\ m_pc' = "open_channel"
    /\ UNCHANGED <<channel, generate_queue, result_queue, consumers, temp_queues>>
    /\ UNCHANGED <<in_reconnect, c_attempt, c_last_error, healthy, exit_status, rc_old>>
    /\ UNCHANGED <<queueVars, handlerVars, otherVars>>

\* self.connection.channel() returns
ChannelReturns ==
    /\ m_pc = "open_channel"
    /\ connection \in conn_open
    /\ channel' = connection
    /\ m_pc' = "declare_generate"
    /\ UNCHANGED <<connection, generate_queue, result_queue>>
    /\ UNCHANGED <<in_reconnect, c_attempt, c_last_error, healthy, exit_status, rc_old>>
    /\ UNCHANGED <<brokerVars, queueVars, handlerVars, otherVars>>

\* connect_rabbitmq returning once campaign.generate is declared
DeclareGenerateReturnsAlone ==
    /\ m_pc = "declare_generate"
    /\ channel \in conn_open
    /\ generate_queue' = channel
    /\ m_pc' = "consume"
    /\ UNCHANGED <<connection, channel, result_queue>>
    /\ UNCHANGED <<in_reconnect, c_attempt, c_last_error, healthy, exit_status, rc_old>>
    /\ UNCHANGED <<brokerVars, queueVars, handlerVars, otherVars>>

\* declare_queue("campaign.generate", durable=True) returns
DeclareGenerateReturns ==
    /\ m_pc = "declare_generate"
    /\ channel \in conn_open
    /\ generate_queue' = channel
    /\ m_pc' = "declare_result"
    /\ UNCHANGED <<connection, channel, result_queue>>
    /\ UNCHANGED <<in_reconnect, c_attempt, c_last_error, healthy, exit_status, rc_old>>
    /\ UNCHANGED <<brokerVars, queueVars, handlerVars, otherVars>>

\* declare_queue("campaign.result", durable=True) returns, and with it
\* connect_rabbitmq; both callers go on to start_consuming
DeclareResultReturns ==
    /\ m_pc = "declare_result"
    /\ channel \in conn_open
    /\ result_queue' = channel
    /\ m_pc' = "consume"
    /\ UNCHANGED <<connection, channel, generate_queue>>
    /\ UNCHANGED <<in_reconnect, c_attempt, c_last_error, healthy, exit_status, rc_old>>
    /\ UNCHANGED <<brokerVars, queueVars, handlerVars, otherVars>>

\* the process ending with status 0
ProcessEndsQuietly ==
    /\ m_pc' = "exited"
    /\ exit_status' = "0"
    /\ conn_open' = {}
    /\ consumers' = {}
    /\ temp_queues' = {}
    /\ generate_ready' = IF wh_pc # "none" /\ wh_conn \in conn_open
                         THEN generate_ready + 1 ELSE generate_ready
    /\ wh_pc' = "none"
    /\ wh_conn' = 0
    /\ wh_published' = FALSE

\* the process ends: sys.exit(1) in the except branch of main(), the
\* finally block, and the sockets of the process
ProcessEnds ==
    /\ m_pc' = "exited"
    /\ exit_status' = "1"
    /\ conn_open' = {}
    /\ consumers' = {}
    /\ temp_queues' = {}
    /\ generate_ready' = IF wh_pc # "none" /\ wh_conn \in conn_open
                         THEN generate_ready + 1 ELSE generate_ready
    /\ wh_pc' = "none"
    /\ wh_conn' = 0
    /\ wh_published' = FALSE

\* a step of the try block of connect_rabbitmq raises: the except branch
ConnectStepRaises(error) ==
    /\ m_pc \in ConnectPositions
    /\ IF m_pc = "dial" THEN error \in DialErrors ELSE error \in SetupErrors
    /\ c_last_error' = error
    /\ IF c_attempt = ConnectMaxRetries - 1
       THEN /\ ProcessEnds
            /\ UNCHANGED <<nextConn, enqueued, results>>
       ELSE /\ m_pc' = "connect_sleep"
            /\ UNCHANGED <<brokerVars, queueVars, handlerVars, exit_status>>
    /\ UNCHANGED <<in_reconnect, c_attempt, healthy, rc_old>>
    /\ UNCHANGED <<connVars, otherVars>>

\* asyncio.sleep(retry_delay) is over: the except clause ends, and with it
\* its exception; the next pass of the for loop
ConnectSleepReturns ==
    /\ m_pc = "connect_sleep"
    /\ c_attempt' = c_attempt + 1
    /\ c_last_error' = NoError
    /\ m_pc' = "dial"
    /\ UNCHANGED <<in_reconnect, healthy, exit_status, rc_old>>
    /\ UNCHANGED <<connVars, brokerVars, queueVars, handlerVars, otherVars>>

\* self.generate_queue.consume(self.process_campaign_message) returns, and
\* with it start_consuming and every reconnect_and_consume around it; main()
\* sleeps in the health loop
ConsumeReturns ==
    /\ m_pc = "consume"
    /\ generate_queue \in conn_open
    /\ consumers' = consumers \cup {generate_queue}
    /\ in_reconnect' = FALSE
    /\ m_pc' = "sleep"
    /\ UNCHANGED <<nextConn, conn_open, temp_queues>>
    /\ UNCHANGED <<c_attempt, c_last_error, healthy, exit_status, rc_old>>
    /\ UNCHANGED <<connVars, queueVars, handlerVars, otherVars>>

\* the except branch of start_consuming only logging
ConsumeRaisesLogged ==
    /\ m_pc = "consume"
    /\ m_pc' = "sleep"
    /\ UNCHANGED <<in_reconnect, rc_old, c_attempt, c_last_error, healthy, exit_status>>
    /\ UNCHANGED <<connVars, brokerVars, queueVars, handlerVars, otherVars>>

\* consume raises: the except branch of start_consuming calls
\* reconnect_and_consume, which starts closing self.connection
ConsumeRaises ==
    /\ m_pc = "consume"
    /\ in_reconnect' = TRUE
    /\ rc_old' = connection
    /\ m_pc' = "close"
    /\ UNCHANGED <<c_attempt, c_last_error, healthy, exit_status>>
    /\ UNCHANGED <<connVars, brokerVars, queueVars, handlerVars, otherVars>>

\* an error of close() leaving reconnect_and_consume
CloseDoneRaising ==
    /\ m_pc = "close"
    /\ IF connection \in conn_open
       THEN /\ Closing(connection)
            /\ c_attempt' = 0
            /\ c_last_error' = NoError
            /\ m_pc' = "dial"
            /\ UNCHANGED <<nextConn, enqueued, results, exit_status, handlerVars>>
       ELSE /\ ProcessEnds
            /\ UNCHANGED <<nextConn, enqueued, results, c_attempt, c_last_error>>
    /\ UNCHANGED <<in_reconnect, healthy, rc_old>>
    /\ UNCHANGED <<connVars, otherVars>>

\* self.connection.close() returns, or raises and is swallowed (a
\* connection that is already gone); connect_rabbitmq is entered
CloseDone ==
    /\ m_pc = "close"
    /\ Closing(connection)
    /\ c_attempt' = 0
    /\ c_last_error' = NoError
    /\ m_pc' = "dial"
    /\ UNCHANGED <<nextConn, enqueued, results>>
    /\ UNCHANGED <<in_reconnect, healthy, exit_status, rc_old>>
    /\ UNCHANGED <<connVars, handlerVars, otherVars>>

\* asyncio.sleep(30) of the health loop is over and is_connection_healthy
\* starts: a closed connection is answered at once
HealthSleepReturns ==
    /\ m_pc = "sleep"
    /\ IF connection = 0 \/ connection \notin conn_open
       THEN /\ healthy' = "False"
            /\ m_pc' = "unhealthy"
       ELSE /\ healthy' = "none"
            /\ m_pc' = "probe_declare"
    /\ UNCHANGED <<in_reconnect, c_attempt, c_last_error, exit_status, rc_old>>
    /\ UNCHANGED <<connVars, brokerVars, queueVars, handlerVars, otherVars>>

\* declare_queue("", exclusive=True, auto_delete=True) returns
ProbeDeclareReturns ==
    /\ m_pc = "probe_declare"
    /\ channel \in conn_open
    /\ temp_queues' = temp_queues \cup {channel}
    /\ m_pc' = "probe_delete"
    /\ UNCHANGED <<nextConn, conn_open, consumers>>
    /\ UNCHANGED <<in_reconnect, c_attempt, c_last_error, healthy, exit_status, rc_old>>
    /\ UNCHANGED <<connVars, queueVars, handlerVars, otherVars>>

\* temp_queue.delete() returns: the probe answers True
ProbeDeleteReturns ==
    /\ m_pc = "probe_delete"
    /\ channel \in conn_open
    /\ temp_queues' = temp_queues \ {channel}
    /\ healthy' = "True"
    /\ m_pc' = "sleep"
    /\ UNCHANGED <<nextConn, conn_open, consumers>>
    /\ UNCHANGED <<in_reconnect, c_attempt, c_last_error, exit_status, rc_old>>
    /\ UNCHANGED <<connVars, queueVars, handlerVars, otherVars>>

\* a failed probe answering True
ProbeRaisesIgnored ==
    /\ m_pc \in {"probe_declare", "probe_delete"}
    /\ healthy' = "True"
    /\ m_pc' = "sleep"
    /\ UNCHANGED <<in_reconnect, c_attempt, c_last_error, exit_status, rc_old>>
    /\ UNCHANGED <<connVars, brokerVars, queueVars, handlerVars, otherVars>>

\* a failed probe tearing the connection state down
ProbeRaisesTearingDown ==
    /\ m_pc \in {"probe_declare", "probe_delete"}
    /\ healthy' = "False"
    /\ m_pc' = "unhealthy"
    /\ connection' = 0
    /\ channel' = 0
    /\ UNCHANGED <<generate_queue, result_queue>>
    /\ UNCHANGED <<in_reconnect, c_attempt, c_last_error, exit_status, rc_old>>
    /\ UNCHANGED <<brokerVars, queueVars, handlerVars, otherVars>>

\* the declare or the delete of the probe raises: the except branch
\* answers False
ProbeRaises ==
    /\ m_pc \in {"probe_declare", "probe_delete"}
    /\ healthy' = "False"
    /\ m_pc' = "unhealthy"
    /\ UNCHANGED <<in_reconnect, c_attempt, c_last_error, exit_status, rc_old>>
    /\ UNCHANGED <<connVars, brokerVars, queueVars, handlerVars, otherVars>>

\* main() going back to sleep after the warning, without reconnecting
ReconnectStartGivingUp ==
    /\ m_pc = "unhealthy"
    /\ m_pc' = "sleep"
    /\ UNCHANGED <<in_reconnect, rc_old, c_attempt, c_last_error, healthy, exit_status>>
    /\ UNCHANGED <<connVars, brokerVars, queueVars, handlerVars, otherVars>>

\* "Connection unhealthy, attempting to reconnect...": main() calls
\* reconnect_and_consume, which starts closing self.connection
ReconnectStart ==
    /\ m_pc = "unhealthy"
    /\ in_reconnect' = TRUE
    /\ rc_old' = connection
    /\ m_pc' = "close"
    /\ UNCHANGED <<c_attempt, c_last_error, healthy, exit_status>>
    /\ UNCHANGED <<connVars, brokerVars, queueVars, handlerVars, otherVars>>

\* the coroutine of main() is suspended in an await and other tasks run
MainSuspended == m_pc \notin {"off", "start", "unhealthy", "exited"}

\* the broker or the network closes a connection the worker still uses
ForceClose(x) ==
    /\ m_pc # "exited"
    /\ x \in conn_open
    /\ x = connection \/ x = wh_conn
    /\ Closing(x)
    /\ UNCHANGED <<nextConn, enqueued, results>>
    /\ UNCHANGED <<m_pc, in_reconnect, c_attempt, c_last_error, healthy, exit_status, rc_old>>
    /\ UNCHANGED <<connVars, handlerVars, otherVars>>

\* a producer puts a job on campaign.generate
Enqueue ==
    /\ m_pc # "exited"
    /\ enqueued < MaxJobs
    /\ enqueued' = enqueued + 1
    /\ generate_ready' = generate_ready + 1
    /\ UNCHANGED results
    /\ UNCHANGED <<m_pc, in_reconnect, c_attempt, c_last_error, healthy, exit_status, rc_old>>
    /\ UNCHANGED <<connVars, brokerVars, handlerVars, otherVars>>

\* the broker delivers a job to the consumer of connection x and
\* process_campaign_message starts on it, up to the await of the generation
WorkerDeliver(x) ==
    /\ MainSuspended
    /\ wh_pc = "none"
    /\ x \in consumers
    /\ x \in conn_open
    /\ generate_ready > 0
    /\ generate_ready' = generate_ready - 1
    /\ wh_pc' = "generate"
    /\ wh_conn' = x
    /\ wh_published' = FALSE
    /\ UNCHANGED <<enqueued, results>>
    /\ UNCHANGED <<m_pc, in_reconnect, c_attempt, c_last_error, healthy, exit_status, rc_old>>
    /\ UNCHANGED <<connVars, brokerVars, otherVars>>

\* generate_text and generate_image are done (or the parse failed): the
\* callback calls self.send_result
GenerateDone ==
    /\ MainSuspended
    /\ wh_pc = "generate"
    /\ wh_pc' = "publish"
    /\ UNCHANGED <<wh_conn, wh_published>>
    /\ UNCHANGED <<m_pc, in_reconnect, c_attempt, c_last_error, healthy, exit_status, rc_old>>
    /\ UNCHANGED <<connVars, brokerVars, queueVars, otherVars>>

\* self.channel.default_exchange.publish returns
WorkerPublishReturns ==
    /\ MainSuspended
    /\ wh_pc = "publish"
    /\ channel \in conn_open
    /\ results' = results + 1
    /\ wh_published' = TRUE
    /\ wh_pc' = "ack"
    /\ UNCHANGED <<wh_conn, generate_ready, enqueued>>
    /\ UNCHANGED <<m_pc, in_reconnect, c_attempt, c_last_error, healthy, exit_status, rc_old>>
    /\ UNCHANGED <<connVars, brokerVars, otherVars>>

\* the publish raises; send_result logs and returns
WorkerPublishRaises ==
    /\ MainSuspended
    /\ wh_pc = "publish"
    /\ wh_pc' = "ack"
    /\ UNCHANGED <<wh_conn, wh_published>>
    /\ UNCHANGED <<m_pc, in_reconnect, c_attempt, c_last_error, healthy, exit_status, rc_old>>
    /\ UNCHANGED <<connVars, brokerVars, queueVars, otherVars>>

\* the exit of message.process(): the ack goes out on the channel the
\* message came on, or raises when that channel is gone
WorkerAck ==
    /\ MainSuspended
    /\ wh_pc = "ack"
    /\ wh_pc' = "none"
    /\ wh_conn' = 0
    /\ wh_published' = FALSE
    /\ UNCHANGED <<m_pc, in_reconnect, c_attempt, c_last_error, healthy, exit_status, rc_old>>
    /\ UNCHANGED <<connVars, brokerVars, queueVars, otherVars>>

MainStep ==
    \/ MainStart
    \/ DialReturns
    \/ ChannelReturns
    \/ DeclareGenerateReturns
    \/ DeclareResultReturns
    \/ \E error \in DialErrors \cup SetupErrors : ConnectStepRaises(error)
    \/ ConnectSleepReturns
    \/ ConsumeReturns
    \/ ConsumeRaises
    \/ CloseDone
    \/ HealthSleepReturns
    \/ ProbeDeclareReturns
    \/ ProbeDeleteReturns
    \/ ProbeRaises
    \/ ReconnectStart

WorkerNext ==
    \/ MainStep
    \/ \E x \in 1..MaxConnections : ForceClose(x)
    \/ Enqueue
    \/ \E x \in 1..MaxConnections : WorkerDeliver(x)
    \/ GenerateDone
    \/ WorkerPublishReturns
    \/ WorkerPublishRaises
    \/ WorkerAck

SpecWorker == WorkerInit /\ [][WorkerNext]_vars

\* ----------------------------------------------- properties of SpecWorker
\* a pass of the for loop of connect_rabbitmq raises in this step
ConnectRaisesNow == c_last_error = NoError /\ c_last_error' # NoError

\* C22 as stated: after an authentication failure connect_rabbitmq neither
\* sleeps nor dials again, and after any other error with attempts left it
\* sleeps for the next attempt.
ConnectFailsFastOnAuth ==
    /\ c_last_error = "ProbableAuthenticationError" =>
          m_pc \notin ConnectPositions \cup {"connect_sleep"}
    /\ (c_last_error \in (DialErrors \cup SetupErrors) \ {"ProbableAuthenticationError"}
           /\ c_attempt < ConnectMaxRetries - 1) => m_pc = "connect_sleep"

\* C23: the failure of the last attempt of connect_rabbitmq ends the
\* process with status 1, and only that does; the ended process has no
\* open connection, no consumer and no callback, and takes no further step.
ConnectExhaustionIsTerminal ==
    [][/\ ConnectRaisesNow =>
             IF c_attempt = ConnectMaxRetries - 1
             THEN m_pc' = "exited"
             ELSE m_pc' = "connect_sleep" /\ exit_status' = "none"
       /\ (m_pc' = "exited") =>
             /\ exit_status' = "1"
             /\ conn_open' = {}
             /\ consumers' = {}
             /\ wh_pc' = "none"
             /\ m_pc # "exited" => (ConnectRaisesNow /\ c_attempt = ConnectMaxRetries - 1)
       /\ (m_pc = "exited") => UNCHANGED vars]_vars

NeverConnectedAndExited ==
    /\ m_pc = "exited"
    /\ exit_status = "1"
    /\ nextConn = 0
    /\ c_attempt = ConnectMaxRetries - 1

\* C24: a connection that carries the consumer is self.connection, and
\* self.channel, self.generate_queue and self.result_queue all live on it.
SubscribedOnDeclaredQueues ==
    \A x \in consumers :
        /\ x \in conn_open
        /\ connection = x
        /\ channel = x
        /\ generate_queue = x
        /\ result_queue = x

SubscribedOnSecondConnection ==
    /\ consumers = {2}
    /\ connection = 2
    /\ result_queue = 2
    /\ m_pc = "sleep"

\* C25: is_connection_healthy answers False when self.connection is closed
\* and when the declare or the delete of the probe queue raises, True only
\* from a delete that returned on an open connection, and main() goes on
\* after either answer.
ProbeAnswersFalseOnAnyFailure ==
    [][/\ (m_pc = "sleep" /\ m_pc' # "sleep" /\ connection \notin conn_open) =>
             (healthy' = "False" /\ m_pc' = "unhealthy")
       /\ (healthy # "True" /\ healthy' = "True") =>
             /\ m_pc = "probe_delete"
             /\ m_pc' = "sleep"
             /\ connection \in conn_open
             /\ channel \notin temp_queues'
       /\ (m_pc \in {"probe_declare", "probe_delete"}
              /\ m_pc' \notin {m_pc, "probe_delete", "sleep"}) =>
             (healthy' = "False" /\ m_pc' = "unhealthy" /\ exit_status' = "none")
       /\ (m_pc' = "unhealthy") => healthy' = "False"]_vars

ProbeDeleteFailedOnOpenConnection ==
    /\ m_pc = "unhealthy"
    /\ healthy = "False"
    /\ connection \in conn_open
    /\ connection \in temp_queues

\* C26: a step of is_connection_healthy changes neither the handles and
\* queue references of the worker nor the connections, the consumer and
\* the contents of the two durable queues.
ProbeLeavesStateUnchanged ==
    [][(m_pc \in {"sleep", "probe_declare", "probe_delete"} /\ m_pc' # m_pc) =>
           UNCHANGED <<connVars, nextConn, conn_open, consumers, queueVars>>]_vars

ProbePassedWithConsumer ==
    /\ m_pc = "sleep"
    /\ healthy = "True"
    /\ connection \in consumers
    /\ temp_queues = {}

\* C27: when reconnect_and_consume returns, self.connection is a new, open
\* connection, the channel and both queues live on it and it carries the
\* consumer, and the connection it started with is closed; whatever close()
\* does, connect_rabbitmq is entered next.
ReconnectRestoresSubscription ==
    [][/\ (in_reconnect /\ ~in_reconnect') =>
             /\ m_pc' = "sleep"
             /\ connection' # rc_old
             /\ connection' \in conn_open'
             /\ rc_old \notin conn_open'
             /\ channel' = connection'
             /\ generate_queue' = connection'
             /\ result_queue' = connection'
             /\ connection' \in consumers'
       /\ (m_pc = "close" /\ m_pc' # "close") =>
             (m_pc' = "dial" /\ connection \notin conn_open' /\ in_reconnect')]_vars

JobPublishedAfterReconnect ==
    /\ ~in_reconnect
    /\ rc_old = 1
    /\ healthy = "False"
    /\ connection = 2
    /\ wh_pc = "ack"
    /\ wh_conn = 2
    /\ wh_published
    /\ results = 1

\* C28: a consume that raises starts reconnect_and_consume, a consume that
\* returns leaves the consumer on self.connection, and main() reaches its
\* health loop from start_consuming only with the consumer subscribed.
SubscribeFailureTriggersReconnect ==
    [][(m_pc = "consume" /\ m_pc' # "consume") =>
           \/ /\ m_pc' = "sleep"
              /\ ~in_reconnect'
              /\ connection' \in consumers'
              /\ generate_queue' = connection'
           \/ /\ m_pc' = "close"
              /\ in_reconnect'
              /\ consumers' = consumers]_vars

ResubscribedAfterSubscribeFailure ==
    /\ m_pc = "sleep"
    /\ healthy = "none"
    /\ rc_old = 1
    /\ connection = 2
    /\ consumers = {2}

\* the connection state the worker is in
ConnectionState ==
    IF m_pc \in {"off", "start"} THEN "Disconnected"
    ELSE IF m_pc = "exited" THEN "Fault"
    ELSE IF in_reconnect THEN "Reconnecting"
    ELSE IF m_pc = "unhealthy" THEN "Degraded"
    ELSE IF m_pc \in ConnectPositions \cup {"connect_sleep"} THEN "Connecting"
    ELSE "Connected"

StateTransitions ==
    {<<"Disconnected", "Connecting">>, <<"Connecting", "Connected">>,
     <<"Connected", "Degraded">>, <<"Degraded", "Reconnecting">>,
     <<"Reconnecting", "Connected">>, <<"Connecting", "Fault">>,
     <<"Reconnecting", "Fault">>}

\* C29 as stated: the connection state changes only along the listed
\* transitions, and a message is handed to the callback only in Connected.
OnlyListedTransitions ==
    [][/\ ConnectionState' # ConnectionState =>
             <<ConnectionState, ConnectionState'>> \in StateTransitions
       /\ (wh_pc = "none" /\ wh_pc' = "generate") => ConnectionState = "Connected"]_vars

\* C29, amended: besides the listed transitions the state moves from
\* Connected to Reconnecting when consume raises in start_consuming, and
\* only then; a message is handed to the callback over an open connection
\* that carries the consumer, in Connected or in Reconnecting while the old
\* connection is still being closed.
TransitionsWithSubscribeFailure ==
    [][/\ ConnectionState' # ConnectionState =>
             \/ <<ConnectionState, ConnectionState'>> \in StateTransitions
             \/ /\ <<ConnectionState, ConnectionState'>> = <<"Connected", "Reconnecting">>
                /\ m_pc = "consume"
       /\ (wh_pc = "none" /\ wh_pc' = "generate") =>
             /\ wh_conn' \in consumers \cap conn_open
             /\ \/ ConnectionState = "Connected"
                \/ ConnectionState = "Reconnecting" /\ m_pc = "close"]_vars

ReconnectingAfterSubscribeFailure ==
    /\ ConnectionState = "Reconnecting"
    /\ m_pc = "close"
    /\ healthy = "none"
    /\ consumers = {}
    /\ connection = 1

\* C30 as stated: no callback publishes or acknowledges while
\* reconnect_and_consume is running, nor on a connection it has closed.
ProcessingExcludesReconnect ==
    [][/\ (wh_pc \in {"publish", "ack"} /\ wh_pc' # wh_pc /\ m_pc' # "exited") =>
             ~in_reconnect
       /\ (wh_pc = "publish" /\ wh_pc' = "ack") =>
             ~(channel = rc_old /\ channel \notin conn_open)
       /\ (wh_pc = "ack" /\ wh_pc' = "none" /\ m_pc' # "exited") =>
             ~(wh_conn = rc_old /\ wh_conn \notin conn_open)]_vars

\* C31 as stated: whenever a message callback is in flight, the connection,
\* the channel and both queue references of the worker belong to one
\* connection
HandlesOfOneConnection ==
    wh_pc # "none" =>
        /\ channel = connection
        /\ generate_queue = connection
        /\ result_queue = connection

\* ---------------------------------------------------------- SpecShutdown
\* SpecWorker with the interrupt of main(): asyncio.run cancels the task of
\* main() at the await it is suspended in, neither except branch of main()
\* catches the cancellation, and the finally block runs.

\* the interrupt arrives; main() enters its finally block and, with an open
\* connection, awaits worker.connection.close()
ShutdownSignal ==
    /\ MainSuspended
    /\ m_pc # "shutdown_close"
    /\ m_pc' = "shutdown_close"
    /\ UNCHANGED <<in_reconnect, c_attempt, c_last_error, healthy, exit_status, rc_old>>
    /\ UNCHANGED <<connVars, brokerVars, queueVars, handlerVars, otherVars>>

\* the finally block is done, with the connection closed or the error of
\* the close logged; asyncio.run cancels the callbacks still in flight and
\* the interrupt ends the process
ShutdownCloseDone ==
    /\ m_pc = "shutdown_close"
    /\ m_pc' = "exited"
    /\ exit_status' = "130"
    /\ conn_open' = {}
    /\ consumers' = {}
    /\ temp_queues' = {}
    /\ generate_ready' = IF wh_pc # "none" /\ wh_conn \in conn_open
                         THEN generate_ready + 1 ELSE generate_ready
    /\ wh_pc' = "none"
    /\ wh_conn' = 0
    /\ wh_published' = FALSE
    /\ UNCHANGED <<nextConn, enqueued, results>>
    /\ UNCHANGED <<in_reconnect, c_attempt, c_last_error, healthy, rc_old>>
    /\ UNCHANGED <<connVars, otherVars>>

ShutdownNext ==
    \/ WorkerNext
    \/ ShutdownSignal
    \/ ShutdownCloseDone

SpecShutdown == WorkerInit /\ [][ShutdownNext]_vars

\* C32 as stated: after the interrupt the finally block of main() closes
\* the connection only when no callback is between receive and acknowledge.
ShutdownWaitsForCallbacks ==
    [][(m_pc = "shutdown_close" /\ m_pc' = "exited" /\ connection \in conn_open)
           => wh_pc = "none"]_vars

\* ------------------------------------------- more properties of SpecRetry
\* C33: should_retry is called at most max_retries times and only with
\* attempts 0..max_retries-1, never when max_retries is 0; a run whose last
\* permitted attempt fails raises that error with the predicate called once
\* for each earlier attempt and not for the last one.
ShouldRetryNotCalledOnLastAttempt ==
    /\ srCalls <= options.max_retries
    /\ srCalls > 0 => srArg \in 0..(options.max_retries - 1)
    /\ options.max_retries = 0 => srCalls = 0
    /\ (r_pc = "raised" /\ attempt = options.max_retries)
          => /\ srCalls = options.max_retries
             /\ srArg = options.max_retries - 1
             /\ result = [kind |-> "raise", value |-> op_last]

LastAttemptFailedUnasked ==
    /\ r_pc = "raised"
    /\ attempt = options.max_retries
    /\ options.max_retries >= 2
    /\ options.should_retry = "onlyE1"
    /\ op_last = "E2"
    /\ srCalls = options.max_retries

\* the options carry the default multiplier and the default jitter factor
DefaultBackoffShape ==
    /\ options.backoff_multiplier = DefaultBackoffMultiplier
    /\ options.jitter_pct = DefaultJitterPct

\* C34 as stated: with the default multiplier and jitter factor the delay
\* of every sleep after the first is at least the delay of the sleep before
\* it, and greater while that one was below max_delay_ms.
DelaysIncrease ==
    (sleeps >= 2 /\ DefaultBackoffShape) =>
        /\ delay >= prevDelay
        /\ prevDelay < options.max_delay_ms => delay > prevDelay

\* C34, amended: the same for an initial_delay_ms of at least 1.
DelaysIncreaseFromPositiveInitialDelay ==
    (sleeps >= 2 /\ DefaultBackoffShape /\ options.initial_delay_ms >= 1) =>
        /\ delay >= prevDelay
        /\ prevDelay < options.max_delay_ms => delay > prevDelay

DelayGrewPastJitteredDelay ==
    /\ sleeps >= 2
    /\ DefaultBackoffShape
    /\ options.initial_delay_ms >= 1
    /\ r_pc = "sleep"
    /\ prevDelay > BaseDelayFloor(options, attempt - 1)
    /\ prevDelay < options.max_delay_ms
    /\ delay > prevDelay

\* ---------------------------------------- more properties of SpecConsumer
\* C35: send_result raises into the handler at most twice per message, the
\* second time for the error envelope, and _send_message runs at most
\* 2 * (max_retries + 1) times; after the publish of a parsed job's envelope
\* has failed, the envelope sent is the error envelope carrying the error of
\* that publish, also when the generation had succeeded.
PublishFailureReportedOnce ==
    /\ sendFailures <= 2
    /\ pubCalls <= 2 * (PublishMaxRetries + 1)
    /\ (accepted /\ sendFailures >= 1) =>
          /\ phase = "error"
          /\ to_send.error \in PublishErrors
          /\ to_send.generatedText = ""
          /\ to_send.imagePath = ""
    /\ (accepted /\ sendFailures = 2) => (h_pc \in {"exit", "settled"} /\ published = <<>>)
    /\ (accepted /\ sendFailures >= 1 /\ published # <<>>) =>
          /\ Len(published) = 1
          /\ published[1].data = to_send

GeneratedJobReportedAsPublishFailure ==
    /\ h_pc = "settled"
    /\ accepted
    /\ ~delegateFailed
    /\ http_response.generatedText = "text"
    /\ sendFailures = 1
    /\ pubCalls = 2 * (PublishMaxRetries + 1)
    /\ Len(published) = 1
    /\ published[1].data.error \in PublishErrors

\* --------------------------------------------------------- SpecReconnect
\* The coroutine of main() alone, with no bound on the connections the
\* broker grants: start_consuming and reconnect_and_consume call each
\* other without a budget, a delay or a depth of their own.

\* connect(self.rabbitmq_url) returns a new connection once MaxConnections
\* numbers are used up: it takes the number of a connection that is gone
\* and that nothing refers to any more
DialReturnsAgain ==
    /\ m_pc = "dial"
    /\ nextConn = MaxConnections
    /\ \E x \in 1..MaxConnections :
          /\ x \notin conn_open \cup consumers \cup temp_queues
          /\ x \notin {connection, channel, generate_queue, result_queue, rc_old, wh_conn}
          /\ conn_open' = conn_open \cup {x}
          /\ connection' = x
    /\ m_pc' = "open_channel"
    /\ UNCHANGED <<channel, generate_queue, result_queue, nextConn, consumers, temp_queues>>
    /\ UNCHANGED <<in_reconnect, c_attempt, c_last_error, healthy, exit_status, rc_old>>
    /\ UNCHANGED <<queueVars, handlerVars, otherVars>>

ReconnectNext ==
    \/ MainStep
    \/ DialReturnsAgain

SpecReconnect == WorkerInit /\ [][ReconnectNext]_vars

\* main() is never suspended for ever: every await it sits in returns or
\* raises
FairReconnect == SpecReconnect /\ WF_vars(ReconnectNext)

\* C36 as stated: a reconnect_and_consume that has started ends, with the
\* consumer subscribed and main() back in its health loop, or with the
\* process ended.
ReconnectTerminates ==
    in_reconnect ~> (~in_reconnect \/ m_pc = "exited")

\* ------------------------------------------- more properties of SpecWorker
\* C37 as stated: at most one connection opened by the worker is open at
\* any time.
AtMostOneOpenConnection == Cardinality(conn_open) <= 1

\* ------------------------------------------- more properties of SpecParse
\* C38 as stated: whenever the extractor is asked about a body the parser
\* has accepted, it returns the campaignId of the parsed job.
ExtractorAgreesWithParser ==
    (p_job.ok /\ p_id # Absent) => p_id = p_job.campaignId

\* C39: an object with campaignId and prompt at the top level is parsed to
\* those two, whatever it holds under data and "0"; any other object whose
\* data is an object is parsed from data alone, whatever it holds under
\* "0", and the parser raises when data lacks campaignId or prompt.
ShapesTriedInOrder ==
    (p_pc \in {"extract", "done"} /\ p_body.kind = "dict") =>
        /\ HasFlatKeys(p_body) => p_job = Job(p_body.campaignId, p_body.prompt)
        /\ (~HasFlatKeys(p_body) /\ p_body.data.kind = "dict") =>
              IF HoldsJob(p_body.data)
              THEN p_job = Job(p_body.data.campaignId, p_body.data.prompt)
              ELSE ~p_job.ok

IncompleteDataNotRescuedByIndex ==
    /\ p_pc = "done"
    /\ p_impl = "utils"
    /\ p_body = DictBody(Absent, Absent, DictEntry("c1", Absent), DictEntry("c2", "p2"))
    /\ ~p_job.ok
    /\ p_job.error = "'prompt'"

\* -------------------------------------------------------------- SpecEquiv
\* ExponentialBackoff.execute and sync_exponential_backoff run side by
\* side with the same options: each call of the operation gives both the
\* same outcome and each delay is computed from the same jitter draw.

\* return operation()
SyncOperationReturns(v) ==
    /\ sync.pc = "call"
    /\ sync' = [sync EXCEPT !.calls = @ + 1,
                            !.result = [kind |-> "return", value |-> v],
                            !.pc = "returned"]

\* operation() raises error: the except branch, up to time.sleep
SyncOperationRaises(error, r) ==
    /\ sync.pc = "call"
    /\ LET asked == [sync EXCEPT !.calls = @ + 1, !.last_error = error]
           told == IF sync.attempt = options.max_retries THEN asked
                   ELSE [asked EXCEPT
                           !.srCalls = @ + 1,
                           !.srArg = sync.attempt,
                           !.srResult = IF should_retry(options, error, sync.attempt)
                                        THEN "true" ELSE "false"]
       IN  sync' = IF sync_except(options, sync.attempt, error) = "sleep"
                   THEN [told EXCEPT !.delay = sync_delay(options, sync.attempt, r),
                                     !.sleeps = @ + 1,
                                     !.pc = "sleep"]
                   ELSE [told EXCEPT !.result = [kind |-> "raise", value |-> error],
                                     !.pc = "raised"]

\* time.sleep returns: the next value of the for loop, or "raise last_error"
SyncSleepReturns ==
    /\ sync.pc = "sleep"
    /\ sync' = IF sync.attempt + 1 < options.max_retries + 1
               THEN [sync EXCEPT !.attempt = @ + 1, !.pc = "call"]
               ELSE [sync EXCEPT !.result = [kind |-> "raise", value |-> sync.last_error],
                                 !.pc = "raised"]

EquivNext ==
    \/ \E v \in Values :
          OperationReturns(v) /\ SyncOperationReturns(v)
              /\ UNCHANGED <<consumerVars, parseVars, workerVars>>
    \/ \E error \in GenericErrors, r \in 0..(JitterSteps - 1) :
          OperationRaises(error, r) /\ SyncOperationRaises(error, r)
              /\ UNCHANGED <<consumerVars, parseVars, workerVars>>
    \/ SleepReturns /\ SyncSleepReturns
          /\ UNCHANGED <<consumerVars, parseVars, workerVars>>

SpecEquiv == RetryInit /\ [][EquivNext]_vars

\* C40: on the same options, outcomes and jitter draws the two executors
\* are at the same point after every step: same attempt, same number of
\* calls of the operation, same calls of should_retry with the same
\* argument and answer, same sleeps with the same delay, and the same value
\* returned or error raised.
SyncEquivalentToAsync ==
    /\ sync.pc = r_pc
    /\ sync.attempt = attempt
    /\ sync.last_error = last_error
    /\ sync.calls = calls
    /\ sync.srCalls = srCalls
    /\ sync.srArg = srArg
    /\ sync.srResult = srResult
    /\ sync.sleeps = sleeps
    /\ sync.delay = delay
    /\ sync.result = result

BothRefusedAfterJitteredSleeps ==
    /\ sync.pc = "raised"
    /\ r_pc = "raised"
    /\ sync.sleeps >= 2
    /\ sync.srResult = "false"
    /\ sync.delay > BaseDelayFloor(options, sync.attempt - 1)
    /\ sync.delay < options.max_delay_ms
    /\ sync.result = [kind |-> "raise", value |-> "E2"]

====
